---- MODULE Spec2Model ----
(***************************************************************************)
(* Telegram relay of Claude-Code-Remote: the notification channel          *)
(* (src/channels/telegram/telegram.js) creates a session record and        *)
(* delivers a notification with endpoint failover; the webhook handler     *)
(* (src/channels/telegram/webhook.js) authorizes an inbound message,       *)
(* parses it, resolves a session by token or by recency and forwards the   *)
(* command.  Strings are sequences of one-character strings, so that       *)
(* trimming, the regular expressions and case conversion are computed.     *)
(***************************************************************************)
EXTENDS Integers, Sequences, FiniteSets, TLC

VARIABLES
    config,        \* this.config: botToken, whitelist, chatId, groupId (static)
    now,           \* Math.floor(Date.now() / 1000)
    store,         \* the session directory: session id -> persisted record
    used,          \* session ids (uuidv4) already drawn
    activeChatId,  \* TelegramChannel.activeChatId (<<>> is null)
    snd,           \* the notification sends in flight, one record per task
    hnd,           \* the webhook handlers in flight, one record per task
    failedFwd,     \* ids of the sessions for which an injection has failed
    expiredGone,   \* tokens of the sessions removed because they had expired
    partial,       \* ids of the session files created but not yet filled
    lastDelivered  \* the chat of the last axios.post that succeeded (<<>>: none yet)

vars == <<config, now, store, used, activeChatId, snd, hnd, failedFwd, expiredGone, partial,
          lastDelivered>>

(***************************************************************************)
(* Bounds of the model.                                                    *)
(***************************************************************************)
MaxSessions == 2
MaxSends == 3

(***************************************************************************)
(* Characters and strings.                                                 *)
(***************************************************************************)
Range(s) == {s[i] : i \in DOMAIN s}

LowerLetters == <<"a", "b", "c", "d", "e", "f", "g", "h", "i", "j", "k", "l", "m",
                  "n", "o", "p", "q", "r", "s", "t", "u", "v", "w", "x", "y", "z">>
UpperLetters == <<"A", "B", "C", "D", "E", "F", "G", "H", "I", "J", "K", "L", "M",
                  "N", "O", "P", "Q", "R", "S", "T", "U", "V", "W", "X", "Y", "Z">>
DigitChars == <<"0", "1", "2", "3", "4", "5", "6", "7", "8", "9">>

\* \s of the regular expressions, and the characters String.prototype.trim strips
IsSpace(c) == c \in {" ", "\t", "\n"}

\* String.prototype.toUpperCase, one character
UpperChar(c) ==
    IF \E i \in DOMAIN LowerLetters : LowerLetters[i] = c
    THEN UpperLetters[CHOOSE i \in DOMAIN LowerLetters : LowerLetters[i] = c]
    ELSE c

\* String.prototype.toLowerCase, one character
LowerChar(c) ==
    IF \E i \in DOMAIN UpperLetters : UpperLetters[i] = c
    THEN LowerLetters[CHOOSE i \in DOMAIN UpperLetters : UpperLetters[i] = c]
    ELSE c

\* variant: the token is looked up as it was typed
toUpperCaseAsTyped(s) == s

toUpperCase(s) == [i \in DOMAIN s |-> UpperChar(s[i])]

toLowerCase(s) == [i \in DOMAIN s |-> LowerChar(s[i])]

\* String.prototype.includes: pat occurs in s as a substring
includes(s, pat) ==
    \E i \in 0..(Len(s) - Len(pat)) :
        \A j \in 1..Len(pat) : s[i + j] = pat[j]

\* Array.prototype.includes on a list of strings
listIncludes(list, x) == \E i \in DOMAIN list : list[i] = x

RECURSIVE NatToString(_)
NatToString(n) ==
    IF n < 10 THEN <<DigitChars[n + 1]>>
    ELSE NatToString(n \div 10) \o <<DigitChars[(n % 10) + 1]>>

\* String(id) of a numeric chat or user id
String(n) == IF n < 0 THEN <<"-">> \o NatToString(-n) ELSE NatToString(n)

RECURSIVE LeadingSpaces(_, _)
\* the length of the maximal run of whitespace of s that starts at index i
LeadingSpaces(s, i) ==
    IF i <= Len(s) /\ IsSpace(s[i]) THEN 1 + LeadingSpaces(s, i + 1) ELSE 0

RECURSIVE TrailingSpaces(_, _)
\* the length of the maximal run of whitespace of s that ends at index i
TrailingSpaces(s, i) ==
    IF i >= 1 /\ IsSpace(s[i]) THEN 1 + TrailingSpaces(s, i - 1) ELSE 0

\* message.text?.trim()
trim(s) ==
    LET a == LeadingSpaces(s, 1)
        b == TrailingSpaces(s, Len(s))
    IN  IF a = Len(s) THEN <<>> ELSE SubSeq(s, a + 1, Len(s) - b)

(***************************************************************************)
(* The two regular expressions of _handleMessage.  Both carry the flags i  *)
(* (letters match in either case) and s (. matches every character).       *)
(***************************************************************************)
TokenLength == 8

CmdLiteral == <<"/", "c", "m", "d">>

NoMatch == [ok |-> FALSE, token |-> <<>>, body |-> <<>>]

\* variant: [A-Z0-9] without the i flag
IsTokenCharUpper(c) ==
    \/ c \in Range(UpperLetters)
    \/ c \in Range(DigitChars)

\* [A-Z0-9] under the i flag
IsTokenChar(c) ==
    \/ c \in Range(UpperLetters)
    \/ c \in Range(LowerLetters)
    \/ c \in Range(DigitChars)

\* variant: ([A-Z0-9]{8})(\s+(.+))?$, where the body may be missing
TokenTailBodyOptional(s, i) ==
    IF /\ i + TokenLength - 1 <= Len(s)
       /\ \A k \in i..(i + TokenLength - 1) : IsTokenChar(s[k])
    THEN LET n == LeadingSpaces(s, i + TokenLength)
             r == i + TokenLength + n
         IN  IF i + TokenLength - 1 = Len(s)
             THEN [ok |-> TRUE, token |-> SubSeq(s, i, i + TokenLength - 1), body |-> <<>>]
             ELSE IF n = 0 THEN NoMatch
             ELSE IF r <= Len(s)
                  THEN [ok |-> TRUE, token |-> SubSeq(s, i, i + TokenLength - 1),
                        body |-> SubSeq(s, r, Len(s))]
             ELSE IF n >= 2
                  THEN [ok |-> TRUE, token |-> SubSeq(s, i, i + TokenLength - 1),
                        body |-> SubSeq(s, Len(s), Len(s))]
             ELSE NoMatch
    ELSE NoMatch

\* ([A-Z0-9]{8})\s+(.+)$ matched at index i of s: the greedy \s+ takes the whole
\* run of whitespace and gives one character back when nothing else is left for .+
TokenTail(s, i) ==
    IF /\ i + TokenLength - 1 <= Len(s)
       /\ \A k \in i..(i + TokenLength - 1) : IsTokenChar(s[k])
    THEN LET n == LeadingSpaces(s, i + TokenLength)
             r == i + TokenLength + n
         IN  IF n = 0 THEN NoMatch
             ELSE IF r <= Len(s)
                  THEN [ok |-> TRUE, token |-> SubSeq(s, i, i + TokenLength - 1),
                        body |-> SubSeq(s, r, Len(s))]
             ELSE IF n >= 2
                  THEN [ok |-> TRUE, token |-> SubSeq(s, i, i + TokenLength - 1),
                        body |-> SubSeq(s, Len(s), Len(s))]
             ELSE NoMatch
    ELSE NoMatch

\* messageText.match(/^\/cmd\s+([A-Z0-9]{8})\s+(.+)$/is)
cmdTokenMatch(s) ==
    IF /\ Len(s) >= Len(CmdLiteral)
       /\ toLowerCase(SubSeq(s, 1, Len(CmdLiteral))) = CmdLiteral
       /\ LeadingSpaces(s, Len(CmdLiteral) + 1) >= 1
    THEN TokenTail(s, Len(CmdLiteral) + 1 + LeadingSpaces(s, Len(CmdLiteral) + 1))
    ELSE NoMatch

\* messageText.match(/^([A-Z0-9]{8})\s+(.+)$/is)
tokenMatch(s) == TokenTail(s, 1)

(***************************************************************************)
(* Inputs: message texts, identities, configurations, transport errors.    *)
(***************************************************************************)
SP == <<" ">>
TAB == <<"\t">>

TokAB == <<"A", "B", "1", "2", "C", "D", "3", "4">>
TokABLower == <<"a", "b", "1", "2", "c", "d", "3", "4">>
TokABMixed == <<"A", "b", "1", "2", "c", "D", "3", "4">>
TokREFACTOR == <<"R", "E", "F", "A", "C", "T", "O", "R">>
DoTheThing == <<"d", "o", " ", "t", "h", "e", " ", "t", "h", "i", "n", "g">>
RefactorTheParser == <<"r", "e", "f", "a", "c", "t", "o", "r", " ",
                       "t", "h", "e", " ", "p", "a", "r", "s", "e", "r">>
TheParser == <<"t", "h", "e", " ", "p", "a", "r", "s", "e", "r">>
FixIt == <<"f", "i", "x", " ", "i", "t">>
StartText == <<"/", "s", "t", "a", "r", "t">>
HelpText == <<"/", "h", "e", "l", "p">>

\* the texts an inbound message (or a transcription) may carry
Texts == <<
    RefactorTheParser,                                   \* 1
    CmdLiteral \o SP \o TokAB \o SP \o DoTheThing,       \* 2
    CmdLiteral \o SP \o TokABLower \o SP \o DoTheThing,  \* 3
    CmdLiteral \o SP \o TokABMixed \o TAB \o SP \o DoTheThing,  \* 4
    TokAB \o SP \o DoTheThing,                           \* 5
    TokABLower \o SP \o DoTheThing,                      \* 6
    CmdLiteral \o SP \o TokAB,                           \* 7
    TokAB,                                               \* 8
    FixIt,                                               \* 9
    SP \o TAB,                                           \* 10
    StartText,                                           \* 11
    HelpText,                                            \* 12
    SP \o CmdLiteral \o SP \o TokAB \o SP \o DoTheThing \o SP \o SP,  \* 13
    TokAB \o <<"5">> \o SP \o DoTheThing,                \* 14
    TokAB \o SP \o SP                                    \* 15
>>

TextIds == DOMAIN Texts

\* what the transcription service may return for a voice message
Transcripts == {1, 9, 10}

\* (chat id, user id) of the senders of inbound messages
Identities == {
    [chatId |-> 555, userId |-> 555],
    [chatId |-> -100, userId |-> 777] }

E1 == <<"5", "5", "5">>
E2 == <<"7", "7", "7">>
E3 == <<"9", "9", "9">>
EGroup == <<"-", "1", "0", "0">>

\* an unset configuration value (undefined, or the empty string) is <<>>
Unset == <<>>

CfgFailover == [botToken |-> TRUE, whitelist |-> <<E1, E2, E3>>, chatId |-> E1, groupId |-> Unset]
CfgDirect == [botToken |-> TRUE, whitelist |-> <<>>, chatId |-> E1, groupId |-> Unset]
CfgGroup == [botToken |-> TRUE, whitelist |-> <<E2, E2>>, chatId |-> E1, groupId |-> EGroup]
CfgGroupOnly == [botToken |-> TRUE, whitelist |-> <<>>, chatId |-> Unset, groupId |-> EGroup]
CfgNone == [botToken |-> TRUE, whitelist |-> <<>>, chatId |-> Unset, groupId |-> Unset]

CfgBoth == [botToken |-> TRUE, whitelist |-> <<>>, chatId |-> E1, groupId |-> EGroup]
CfgUsers == [botToken |-> TRUE, whitelist |-> <<E2>>, chatId |-> E3, groupId |-> Unset]

Configs == {CfgFailover, CfgDirect, CfgGroup, CfgGroupOnly, CfgNone}

\* a || b on configuration strings: the empty string and undefined are falsy
OrElse(a, b) == IF a # Unset THEN a ELSE b

\* the error of a rejected axios.post: error.response?.data, when there is one,
\* carries error_code and description
ErrBlocked == [response |-> TRUE, status |-> 403, data |-> TRUE, error_code |-> 403,
    description |-> <<"F", "o", "r", "b", "i", "d", "d", "e", "n", ":", " ", "b", "o", "t", " ",
                      "w", "a", "s", " ", "b", "l", "o", "c", "k", "e", "d", " ", "b", "y", " ",
                      "t", "h", "e", " ", "u", "s", "e", "r">>]
ErrTooMany == [response |-> TRUE, status |-> 429, data |-> TRUE, error_code |-> 429,
    description |-> <<"T", "o", "o", " ", "M", "a", "n", "y", " ", "R", "e", "q", "u", "e", "s",
                      "t", "s", ":", " ", "r", "e", "t", "r", "y", " ", "a", "f", "t", "e", "r",
                      " ", "5">>]
ErrNetwork == [response |-> FALSE, status |-> 0, data |-> FALSE, error_code |-> 0,
               description |-> <<>>]
NoError == [response |-> FALSE, status |-> 0, data |-> FALSE, error_code |-> -1,
            description |-> <<>>]

TransportErrors == {ErrBlocked, ErrTooMany, ErrNetwork}

\* more answers: status is error.response.status, data tells whether
\* error.response.data is there (a gateway may answer without a JSON body)
ErrNotFound == [response |-> TRUE, status |-> 400, data |-> TRUE, error_code |-> 400,
    description |-> <<"B", "a", "d", " ", "R", "e", "q", "u", "e", "s", "t", ":", " ", "c",
                      "h", "a", "t", " ", "n", "o", "t", " ", "f", "o", "u", "n", "d">>]
ErrKicked == [response |-> TRUE, status |-> 409, data |-> TRUE, error_code |-> 409,
    description |-> <<"C", "o", "n", "f", "l", "i", "c", "t", ":", " ", "B", "o", "t", " ",
                      "W", "a", "s", " ", "K", "i", "c", "k", "e", "d", " ", "F", "r", "o",
                      "m", " ", "T", "h", "e", " ", "G", "r", "o", "u", "p", " ", "C", "h",
                      "a", "t">>]
ErrIdInvalid == [response |-> TRUE, status |-> 500, data |-> TRUE, error_code |-> 500,
    description |-> <<"I", "n", "t", "e", "r", "n", "a", "l", " ", "S", "e", "r", "v", "e",
                      "r", " ", "E", "r", "r", "o", "r", ":", " ", "c", "h", "a", "t", "_",
                      "i", "d", "_", "i", "n", "v", "a", "l", "i", "d">>]
ErrForbiddenNoBody == [response |-> TRUE, status |-> 403, data |-> FALSE, error_code |-> 0,
                       description |-> <<>>]
ErrBadGateway == [response |-> TRUE, status |-> 502, data |-> TRUE, error_code |-> 502,
    description |-> <<"B", "a", "d", " ", "G", "a", "t", "e", "w", "a", "y">>]

AllErrors == TransportErrors \cup
             {ErrNotFound, ErrKicked, ErrIdInvalid, ErrForbiddenNoBody, ErrBadGateway}

\* error.message of a failed injector.injectCommand
InjectErrors == {"tmux session not found", "tmux send-keys failed"}

\* the tokens _generateToken may draw (8 characters of [A-Z0-9] each)
Tokens == {TokAB, TokREFACTOR}

(***************************************************************************)
(* _isInvalidChatError (telegram.js)                                       *)
(***************************************************************************)
invalidChatErrors == <<
    <<"c", "h", "a", "t", " ", "n", "o", "t", " ", "f", "o", "u", "n", "d">>,
    <<"b", "o", "t", " ", "w", "a", "s", " ", "b", "l", "o", "c", "k", "e", "d", " ", "b", "y",
      " ", "t", "h", "e", " ", "u", "s", "e", "r">>,
    <<"u", "s", "e", "r", " ", "i", "s", " ", "d", "e", "a", "c", "t", "i", "v", "a", "t", "e",
      "d">>,
    <<"b", "o", "t", " ", "w", "a", "s", " ", "k", "i", "c", "k", "e", "d", " ", "f", "r", "o",
      "m", " ", "t", "h", "e", " ", "g", "r", "o", "u", "p", " ", "c", "h", "a", "t">>,
    <<"b", "o", "t", " ", "i", "s", " ", "n", "o", "t", " ", "a", " ", "m", "e", "m", "b", "e",
      "r", " ", "o", "f", " ", "t", "h", "e", " ", "g", "r", "o", "u", "p", " ", "c", "h", "a",
      "t">>,
    <<"c", "h", "a", "t", "_", "i", "d", " ", "i", "s", " ", "e", "m", "p", "t", "y">>,
    <<"C", "H", "A", "T", "_", "I", "D", "_", "I", "N", "V", "A", "L", "I", "D">> >>

\* variant: the status of the answer is read in place of the error_code of its body
_isInvalidChatErrorByStatus(error) ==
    IF ~error.response THEN FALSE
    ELSE \/ error.status = 400
         \/ error.status = 403
         \/ \E k \in DOMAIN invalidChatErrors :
                includes(toLowerCase(error.description), toLowerCase(invalidChatErrors[k]))

\* variant: every answer of the server counts as an invalid chat
_isInvalidChatErrorAnyAnswer(error) == error.response

_isInvalidChatError(error) ==
    IF ~(error.response /\ error.data) THEN FALSE
    ELSE \/ error.error_code = 400
         \/ error.error_code = 403
         \/ \E k \in DOMAIN invalidChatErrors :
                includes(toLowerCase(error.description), toLowerCase(invalidChatErrors[k]))

\* the classification of every transport error of the model, computed once
InvalidChatErrorSet == {e \in AllErrors : _isInvalidChatError(e)}

(***************************************************************************)
(* _isAuthorized (webhook.js)                                              *)
(***************************************************************************)
\* variant: the configured chat is let in beside the allow-list
_isAuthorizedBesideList(userId, chatId) ==
    LET whitelist == config.whitelist
        configuredChatId == OrElse(config.chatId, config.groupId)
    IN  \/ listIncludes(whitelist, String(chatId))
        \/ listIncludes(whitelist, String(userId))
        \/ configuredChatId # Unset /\ String(chatId) = configuredChatId

\* variant: nobody is turned away
_isAuthorizedAnyone(userId, chatId) == TRUE

_isAuthorized(userId, chatId) ==
    LET whitelist == config.whitelist
    IN  IF listIncludes(whitelist, String(chatId)) \/ listIncludes(whitelist, String(userId))
        THEN TRUE
        ELSE IF Len(whitelist) = 0
             THEN LET configuredChatId == OrElse(config.chatId, config.groupId)
                  IN  configuredChatId # Unset /\ String(chatId) = configuredChatId
             ELSE FALSE

(***************************************************************************)
(* The session directory.                                                  *)
(***************************************************************************)
TTL == 86400

StartTime == 100

\* the instants at which the model looks at the clock: the start, 100 seconds
\* later, and the seconds around the expiry of a session created at the start
Instants ==
    {StartTime, StartTime + 100} \cup {StartTime + TTL + k : k \in (-1)..1}

SessionIds == 1..MaxSessions

NoSession == [id |-> 0, token |-> <<>>, createdAt |-> 0, expiresAt |-> 0, tmuxSession |-> ""]

RECURSIVE SortedIds(_)
\* fs.readdirSync(this.sessionsDir): the files in directory order, which is the
\* order of their names (the uuids), unrelated to the order of creation
SortedIds(S) ==
    IF S = {} THEN <<>>
    ELSE LET m == CHOOSE x \in S : \A y \in S : x <= y
         IN  <<m>> \o SortedIds(S \ {m})

readdirSync == SortedIds(DOMAIN store)

RECURSIVE FindByTokenFrom(_, _, _)
\* lines 482-494; JSON.parse throws on a file that is not filled yet, the catch
\* logs it and the loop goes on
FindByTokenFrom(files, i, token) ==
    IF i > Len(files) THEN NoSession
    ELSE IF files[i] \in partial THEN FindByTokenFrom(files, i + 1, token)
    ELSE IF store[files[i]].token = token THEN store[files[i]]
    ELSE FindByTokenFrom(files, i + 1, token)

\* variant: the record of a send that is still in flight is not returned
_findSessionByTokenDelivered(token) ==
    LET found == FindByTokenFrom(readdirSync, 1, token)
    IN  IF \E s \in DOMAIN snd : /\ snd[s].sessionId = found.id
                                  /\ snd[s].pc \in {"created", "post", "recover"}
        THEN NoSession
        ELSE found

\* _findSessionByToken (webhook.js): the first record, in directory order, with the token
_findSessionByToken(token) == FindByTokenFrom(readdirSync, 1, token)

RECURSIVE FindMostRecentLast(_, _, _, _)
\* variant: of two equally recent records the one scanned later is kept
FindMostRecentLast(files, i, mostRecentSession, mostRecentTime) ==
    IF i > Len(files) THEN mostRecentSession
    ELSE LET session == store[files[i]]
         IN  IF /\ files[i] \notin partial
                /\ session.expiresAt # 0 /\ session.expiresAt > now
                /\ session.createdAt # 0 /\ session.createdAt >= mostRecentTime
             THEN FindMostRecentLast(files, i + 1, session, session.createdAt)
             ELSE FindMostRecentLast(files, i + 1, mostRecentSession, mostRecentTime)

RECURSIVE FindMostRecentFrom(_, _, _, _)
\* lines 314-332; a file that is not filled yet fails to parse and is passed over
FindMostRecentFrom(files, i, mostRecentSession, mostRecentTime) ==
    IF i > Len(files) THEN mostRecentSession
    ELSE LET session == store[files[i]]
         IN  IF /\ files[i] \notin partial
                /\ session.expiresAt # 0 /\ session.expiresAt > now
                /\ session.createdAt # 0 /\ session.createdAt > mostRecentTime
             THEN FindMostRecentFrom(files, i + 1, session, session.createdAt)
             ELSE FindMostRecentFrom(files, i + 1, mostRecentSession, mostRecentTime)

\* variant: only the configured chat is given a session
_findMostRecentSessionOwnChat(chatId, userId) ==
    IF String(chatId) = config.chatId
    THEN FindMostRecentFrom(readdirSync, 1, NoSession, 0)
    ELSE NoSession

\* _findMostRecentSession (webhook.js); chatId and userId are not used by the code
_findMostRecentSession(chatId, userId) == FindMostRecentFrom(readdirSync, 1, NoSession, 0)

\* variant: the file is never unlinked
_removeSessionNever(sessionId) == store

\* _removeSession (both files): unlink the file when it exists
_removeSession(sessionId) ==
    IF sessionId \in DOMAIN store
    THEN [i \in DOMAIN store \ {sessionId} |-> store[i]]
    ELSE store

\* the record _createSession writes; the clock is read once for createdAt and
\* once more for expiresAt
NewSession(sessionId, token, tmuxSession, createdNow, expiresNow) ==
    [id |-> sessionId, token |-> token, createdAt |-> createdNow,
     expiresAt |-> expiresNow + TTL, tmuxSession |-> tmuxSession]

(***************************************************************************)
(* The notification channel (telegram.js).                                 *)
(***************************************************************************)
\* notification.metadata as the caller passes it, and the tmux session the
\* process runs in ("" when _getCurrentTmuxSession returns null)
Notifications == {
    [hasMetadata |-> FALSE, tmuxSession |-> ""],
    [hasMetadata |-> TRUE, tmuxSession |-> "work"] }

CurrentTmuxSessions == {"", "work"}

SIdle == [pc |-> "idle", sessionId |-> 0, token |-> <<>>, chatId |-> <<>>,
          cached |-> <<>>, candidates |-> <<>>, idx |-> 0, attempts |-> <<>>,
          error |-> NoError, result |-> "none", thrown |-> ""]

\* error.message of a failed fs.readdirSync of the session directory, and of an
\* fs.writeFileSync that cannot open the session file
ScanErrors == {"EACCES: permission denied, scandir"}
WriteErrors == {"EACCES: permission denied, open", "EROFS: read-only file system, open"}

_validateConfig ==
    /\ config.botToken
    /\ (config.chatId # Unset \/ config.groupId # Unset)

\* lines 114-123 and 334: the tmuxSession the session record gets
SessionTmux(notification, tmuxSession) ==
    LET metadata == IF tmuxSession # "" /\ ~notification.hasMetadata
                    THEN [hasMetadata |-> TRUE, tmuxSession |-> tmuxSession]
                    ELSE notification
    IN  IF metadata.hasMetadata /\ metadata.tmuxSession # ""
        THEN metadata.tmuxSession
        ELSE "default"

RECURSIVE WhitelistCandidates(_, _, _, _)
WhitelistCandidates(whitelist, i, failedStr, candidates) ==
    IF i > Len(whitelist) THEN candidates
    ELSE IF whitelist[i] # failedStr /\ ~listIncludes(candidates, whitelist[i])
         THEN WhitelistCandidates(whitelist, i + 1, failedStr, Append(candidates, whitelist[i]))
         ELSE WhitelistCandidates(whitelist, i + 1, failedStr, candidates)

\* variant: the configured group is listed before the configured chat
_getChatIdCandidatesGroupFirst(failedChatId) ==
    LET c1 == WhitelistCandidates(config.whitelist, 1, failedChatId, <<>>)
        c2 == IF /\ config.groupId # Unset /\ config.groupId # failedChatId
                 /\ ~listIncludes(c1, config.groupId)
              THEN Append(c1, config.groupId) ELSE c1
        c3 == IF /\ config.chatId # Unset /\ config.chatId # failedChatId
                 /\ ~listIncludes(c2, config.chatId)
              THEN Append(c2, config.chatId) ELSE c2
    IN  c3

_getChatIdCandidates(failedChatId) ==
    LET c1 == WhitelistCandidates(config.whitelist, 1, failedChatId, <<>>)
        c2 == IF /\ config.chatId # Unset /\ config.chatId # failedChatId
                 /\ ~listIncludes(c1, config.chatId)
              THEN Append(c1, config.chatId) ELSE c1
        c3 == IF /\ config.groupId # Unset /\ config.groupId # failedChatId
                 /\ ~listIncludes(c2, config.groupId)
              THEN Append(c2, config.groupId) ELSE c2
    IN  c3

\* _sendImpl, line 106: the channel is not configured
SendConfigError(s) ==
    /\ snd[s].pc = "idle"
    /\ ~_validateConfig
    /\ snd' = [snd EXCEPT ![s] = [SIdle EXCEPT !.pc = "done", !.result = "threw",
                        !.thrown = "Telegram channel not properly configured"]]
    /\ UNCHANGED <<config, now, store, used, activeChatId, hnd, failedFwd, expiredGone, partial, lastDelivered>>

\* _sendImpl, lines 110-126: draw the id and the token, write the record.  The
\* second clock read of _createSession may fall in the next second.
SendCreate(s, P) ==
    /\ snd[s].pc = "idle"
    /\ _validateConfig
    /\ \E sessionId \in P.sessions \ used, token \in P.tokens,
          notification \in P.notifications, tmuxSession \in P.tmux,
          late \in P.lates :
        /\ now + late \in P.instants
        /\ store' = [i \in DOMAIN store \cup {sessionId} |->
                        IF i = sessionId
                        THEN NewSession(sessionId, token,
                                        SessionTmux(notification, tmuxSession),
                                        now, now + late)
                        ELSE store[i]]
        /\ used' = used \cup {sessionId}
        /\ now' = now + late
        /\ snd' = [snd EXCEPT ![s] =
                      [SIdle EXCEPT !.pc = "created", !.sessionId = sessionId,
                                    !.token = token]]
    /\ UNCHANGED <<config, activeChatId, hnd, failedFwd, expiredGone, partial, lastDelivered>>

\* variant: the failed write is logged and the notification is posted all the same
SendCreateFailsGoesOn(s) ==
    /\ snd[s].pc = "idle"
    /\ _validateConfig
    /\ \E sessionId \in SessionIds \ used, error \in WriteErrors :
        /\ used' = used \cup {sessionId}
        /\ snd' = [snd EXCEPT ![s] =
                      [SIdle EXCEPT !.pc = "created", !.sessionId = sessionId,
                                    !.thrown = error]]
    /\ UNCHANGED <<config, now, store, activeChatId, hnd, failedFwd, expiredGone, partial, lastDelivered>>

\* _sendImpl, lines 110-126: fs.writeFileSync cannot open the session file and
\* throws; the call of _createSession is outside the try of _sendImpl, so the
\* error leaves _sendImpl
SendCreateFails(s) ==
    /\ snd[s].pc = "idle"
    /\ _validateConfig
    /\ \E sessionId \in SessionIds \ used, error \in WriteErrors :
        /\ used' = used \cup {sessionId}
        /\ snd' = [snd EXCEPT ![s] =
                      [SIdle EXCEPT !.pc = "done", !.sessionId = sessionId,
                                    !.cached = activeChatId,
                                    !.result = "threw", !.thrown = error]]
    /\ UNCHANGED <<config, now, store, activeChatId, hnd, failedFwd, expiredGone, partial, lastDelivered>>

\* _createSession, line 340, as another process sees it: fs.writeFileSync opens
\* the file, which creates it empty under its final name, ...
SendCreateOpen(s, P) ==
    /\ snd[s].pc = "idle"
    /\ _validateConfig
    /\ \E sessionId \in P.sessions \ used, token \in P.tokens,
          notification \in P.notifications, tmuxSession \in P.tmux,
          late \in P.lates :
        /\ now + late \in P.instants
        /\ store' = [i \in DOMAIN store \cup {sessionId} |->
                        IF i = sessionId
                        THEN NewSession(sessionId, token,
                                        SessionTmux(notification, tmuxSession),
                                        now, now + late)
                        ELSE store[i]]
        /\ used' = used \cup {sessionId}
        /\ partial' = partial \cup {sessionId}
        /\ now' = now + late
        /\ snd' = [snd EXCEPT ![s] =
                      [SIdle EXCEPT !.pc = "writing", !.sessionId = sessionId,
                                    !.token = token]]
    /\ UNCHANGED <<config, activeChatId, hnd, failedFwd, expiredGone, lastDelivered>>

\* ... and then writes the record into it
SendCreateWrite(s) ==
    /\ snd[s].pc = "writing"
    /\ partial' = partial \ {snd[s].sessionId}
    /\ snd' = [snd EXCEPT ![s].pc = "created"]
    /\ UNCHANGED <<config, now, store, used, activeChatId, hnd, failedFwd, expiredGone, lastDelivered>>

\* variant: without a cached recipient the configured chat goes before the group
SendTargetDirectFirst(s) ==
    /\ snd[s].pc = "created"
    /\ LET chatId == OrElse(activeChatId, OrElse(config.chatId, config.groupId))
       IN  snd' = [snd EXCEPT ![s].pc = "post", ![s].chatId = chatId,
                              ![s].cached = activeChatId, ![s].attempts = <<chatId>>]
    /\ UNCHANGED <<config, now, store, used, activeChatId, hnd, failedFwd, expiredGone, partial, lastDelivered>>

\* variant: the recipient is always the configured one
SendTargetConfigured(s) ==
    /\ snd[s].pc = "created"
    /\ LET chatId == OrElse(config.groupId, config.chatId)
       IN  snd' = [snd EXCEPT ![s].pc = "post", ![s].chatId = chatId,
                              ![s].cached = activeChatId, ![s].attempts = <<chatId>>]
    /\ UNCHANGED <<config, now, store, used, activeChatId, hnd, failedFwd, expiredGone, partial, lastDelivered>>

\* _sendImpl, lines 128-163: choose the recipient and post the message
SendTarget(s) ==
    /\ snd[s].pc = "created"
    /\ LET chatId == OrElse(activeChatId, OrElse(config.groupId, config.chatId))
       IN  snd' = [snd EXCEPT ![s].pc = "post", ![s].chatId = chatId,
                              ![s].cached = activeChatId, ![s].attempts = <<chatId>>]
    /\ UNCHANGED <<config, now, store, used, activeChatId, hnd, failedFwd, expiredGone, partial, lastDelivered>>

\* _sendImpl, lines 165-166: the post succeeded
SendPostOk(s) ==
    /\ snd[s].pc = "post"
    /\ snd' = [snd EXCEPT ![s].pc = "done", ![s].result = "ok"]
    /\ lastDelivered' = snd[s].chatId
    /\ UNCHANGED <<config, now, store, used, activeChatId, hnd, failedFwd, expiredGone, partial>>

\* variant: a send that fails without a failover leaves its session in place
SendPostFailKeeps(s, P) ==
    /\ snd[s].pc = "post"
    /\ \E error \in P.errors :
        LET candidates == IF error \in InvalidChatErrorSet
                          THEN _getChatIdCandidates(snd[s].chatId)
                          ELSE <<>>
        IN  IF candidates # <<>>
            THEN snd' = [snd EXCEPT ![s].pc = "recover", ![s].error = error,
                                    ![s].candidates = candidates, ![s].idx = 1,
                                    ![s].attempts = Append(@, candidates[1])]
            ELSE snd' = [snd EXCEPT ![s].pc = "done", ![s].error = error,
                                    ![s].result = "failed"]
    /\ UNCHANGED <<config, now, store, used, activeChatId, hnd, failedFwd, expiredGone, partial, lastDelivered>>

\* _sendImpl, lines 167-187: the post failed with error; on an invalid-chat error
\* _recoverChatId posts to the first candidate, otherwise the session is removed
SendPostFail(s, P) ==
    /\ snd[s].pc = "post"
    /\ \E error \in P.errors :
        LET candidates == IF error \in InvalidChatErrorSet
                          THEN _getChatIdCandidates(snd[s].chatId)
                          ELSE <<>>
        IN  IF candidates # <<>>
            THEN /\ snd' = [snd EXCEPT ![s].pc = "recover", ![s].error = error,
                                       ![s].candidates = candidates, ![s].idx = 1,
                                       ![s].attempts = Append(@, candidates[1])]
                 /\ store' = store
            ELSE /\ snd' = [snd EXCEPT ![s].pc = "done", ![s].error = error,
                                       ![s].result = "failed"]
                 /\ store' = _removeSession(snd[s].sessionId)
    /\ UNCHANGED <<config, now, used, activeChatId, hnd, failedFwd, expiredGone, partial, lastDelivered>>

\* variant: a cached recipient is not replaced
SendRecoverOkKeepsFirst(s) ==
    /\ snd[s].pc = "recover"
    /\ activeChatId' = IF activeChatId = Unset THEN snd[s].candidates[snd[s].idx]
                       ELSE activeChatId
    /\ lastDelivered' = snd[s].candidates[snd[s].idx]
    /\ snd' = [snd EXCEPT ![s].pc = "done", ![s].result = "ok"]
    /\ UNCHANGED <<config, now, store, used, hnd, failedFwd, expiredGone, partial>>

\* _recoverChatId, lines 246-250: the post to the candidate succeeded
SendRecoverOk(s) ==
    /\ snd[s].pc = "recover"
    /\ activeChatId' = snd[s].candidates[snd[s].idx]
    /\ lastDelivered' = snd[s].candidates[snd[s].idx]
    /\ snd' = [snd EXCEPT ![s].pc = "done", ![s].result = "ok"]
    /\ UNCHANGED <<config, now, store, used, hnd, failedFwd, expiredGone, partial>>

\* _recoverChatId, lines 251-258, and _sendImpl, lines 183-186: the post to the
\* candidate failed; try the next one, or give up and remove the session
SendRecoverFail(s) ==
    /\ snd[s].pc = "recover"
    /\ IF snd[s].idx < Len(snd[s].candidates)
       THEN /\ snd' = [snd EXCEPT ![s].idx = @ + 1,
                                  ![s].attempts = Append(@, snd[s].candidates[snd[s].idx + 1])]
            /\ store' = store
       ELSE /\ snd' = [snd EXCEPT ![s].pc = "done", ![s].result = "failed"]
            /\ store' = _removeSession(snd[s].sessionId)
    /\ UNCHANGED <<config, now, used, activeChatId, hnd, failedFwd, expiredGone, partial, lastDelivered>>

(***************************************************************************)
(* The webhook handler (webhook.js).                                       *)
(***************************************************************************)
\* a handler task: the message (chatId, userId, voice, text: an index of Texts),
\* what _isAuthorized answered, the command and the lookup made, the session
\* resolved, the calls of injector.injectCommand and the error it threw, the
\* ids of the records removed, the messages sent back, and the error that came
\* up to _handleWebhook, which answers it with status 500
HIdle == [pc |-> "idle", chatId |-> 0, userId |-> 0, voice |-> FALSE, text |-> 0,
          auth |-> "unchecked", command |-> <<>>, lookup |-> "none", token |-> <<>>,
          session |-> NoSession, forwarded |-> <<>>, thrown |-> "", removed |-> {},
          replies |-> <<>>, webhookError |-> ""]

\* one call of _sendMessage: the text sent (its kind and what it quotes).
\* _sendMessage swallows a failed post, so the handler goes on alike either
\* way; whether the post succeeded is recorded for the confirmation only
Reply(kind) ==
    [kind |-> kind, command |-> <<>>, session |-> "", error |-> "", delivered |-> TRUE]

\* _handleMessage, lines 83-123, after the authorization check: what the
\* trimmed text is taken for
Route(messageText) ==
    IF messageText = <<>> THEN [kind |-> "blank", token |-> <<>>, command |-> <<>>]
    ELSE IF messageText = StartText THEN [kind |-> "start", token |-> <<>>, command |-> <<>>]
    ELSE IF messageText = HelpText THEN [kind |-> "help", token |-> <<>>, command |-> <<>>]
    ELSE IF cmdTokenMatch(messageText).ok
         THEN [kind |-> "token", token |-> toUpperCase(cmdTokenMatch(messageText).token),
               command |-> cmdTokenMatch(messageText).body]
    ELSE IF tokenMatch(messageText).ok
         THEN [kind |-> "token", token |-> toUpperCase(tokenMatch(messageText).token),
               command |-> tokenMatch(messageText).body]
    ELSE [kind |-> "recency", token |-> <<>>, command |-> messageText]

\* the route of every text of the model, computed once
RouteOf == [t \in TextIds |-> Route(trim(Texts[t]))]

\* variant: a token that no record carries falls back to the most recent session
ReceiveTextFallback(h, P) ==
    /\ hnd[h].pc = "idle"
    /\ \E ident \in P.identities, t \in P.texts :
        LET r == RouteOf[t]
            m == [HIdle EXCEPT !.chatId = ident.chatId, !.userId = ident.userId, !.text = t]
        IN  hnd' = [hnd EXCEPT ![h] =
                IF r.kind = "blank" THEN [m EXCEPT !.pc = "done"]
                ELSE IF ~_isAuthorized(ident.userId, ident.chatId)
                     THEN [m EXCEPT !.pc = "done", !.auth = "no",
                                    !.replies = <<Reply("unauthorized")>>]
                ELSE IF r.kind \in {"start", "help"}
                     THEN [m EXCEPT !.pc = "done", !.auth = "yes",
                                    !.replies = <<Reply(r.kind)>>]
                ELSE IF r.kind = "token" /\ _findSessionByToken(r.token) # NoSession
                     THEN [m EXCEPT !.pc = "check", !.auth = "yes", !.lookup = "token",
                                    !.token = r.token, !.command = r.command,
                                    !.session = _findSessionByToken(r.token)]
                ELSE [m EXCEPT !.pc = "check", !.auth = "yes", !.lookup = "recency",
                               !.command = r.command,
                               !.session = _findMostRecentSession(ident.chatId, ident.userId)]]
    /\ UNCHANGED <<config, now, store, used, activeChatId, snd, failedFwd, expiredGone, partial, lastDelivered>>

\* _handleMessage with a text message, up to the first suspension: the
\* authorization check, the parse and the scan of the session directory
ReceiveText(h, P) ==
    /\ hnd[h].pc = "idle"
    /\ \E ident \in P.identities, t \in P.texts :
        LET r == RouteOf[t]
            m == [HIdle EXCEPT !.chatId = ident.chatId, !.userId = ident.userId, !.text = t]
        IN  hnd' = [hnd EXCEPT ![h] =
                IF r.kind = "blank" THEN [m EXCEPT !.pc = "done"]
                ELSE IF ~_isAuthorized(ident.userId, ident.chatId)
                     THEN [m EXCEPT !.pc = "done", !.auth = "no",
                                    !.replies = <<Reply("unauthorized")>>]
                ELSE IF r.kind \in {"start", "help"}
                     THEN [m EXCEPT !.pc = "done", !.auth = "yes",
                                    !.replies = <<Reply(r.kind)>>]
                ELSE IF r.kind = "token"
                     THEN [m EXCEPT !.pc = "check", !.auth = "yes", !.lookup = "token",
                                    !.token = r.token, !.command = r.command,
                                    !.session = _findSessionByToken(r.token)]
                ELSE [m EXCEPT !.pc = "check", !.auth = "yes", !.lookup = "recency",
                               !.command = r.command,
                               !.session = _findMostRecentSession(ident.chatId, ident.userId)]]
    /\ UNCHANGED <<config, now, store, used, activeChatId, snd, failedFwd, expiredGone, partial, lastDelivered>>

\* _handleMessage with a text message that is a command, when fs.readdirSync
\* throws (lines 480 and 310, outside the try of the loop): the error passes
\* through _processCommand and _handleMessage up to the catch of _handleWebhook,
\* lines 67-70, which logs it and answers 500; no message is posted
ReceiveTextScanFails(h, P) ==
    /\ hnd[h].pc = "idle"
    /\ \E ident \in P.identities, t \in P.texts, error \in ScanErrors :
        LET r == RouteOf[t]
            m == [HIdle EXCEPT !.chatId = ident.chatId, !.userId = ident.userId, !.text = t]
        IN  /\ r.kind \in {"token", "recency"}
            /\ _isAuthorized(ident.userId, ident.chatId)
            /\ hnd' = [hnd EXCEPT ![h] =
                    [m EXCEPT !.pc = "done", !.auth = "yes", !.lookup = r.kind,
                              !.token = r.token, !.command = r.command,
                              !.thrown = error, !.webhookError = error]]
    /\ UNCHANGED <<config, now, store, used, activeChatId, snd, failedFwd, expiredGone, partial, lastDelivered>>

\* _handleMessage with a voice or audio message, and _handleVoiceMessage up to
\* its first suspension
ReceiveVoice(h, P) ==
    /\ hnd[h].pc = "idle"
    /\ \E ident \in P.identities :
        LET m == [HIdle EXCEPT !.chatId = ident.chatId, !.userId = ident.userId,
                               !.voice = TRUE]
        IN  hnd' = [hnd EXCEPT ![h] =
                IF ~_isAuthorized(ident.userId, ident.chatId)
                THEN [m EXCEPT !.pc = "done", !.auth = "no",
                               !.replies = <<Reply("unauthorized")>>]
                ELSE [m EXCEPT !.pc = "voice", !.auth = "yes",
                               !.replies = <<Reply("processing")>>]]
    /\ UNCHANGED <<config, now, store, used, activeChatId, snd, failedFwd, expiredGone, partial, lastDelivered>>

\* _handleVoiceMessage, lines 176-180: fetching or transcribing the audio failed
VoiceFailed(h) ==
    /\ hnd[h].pc = "voice"
    /\ hnd' = [hnd EXCEPT ![h].pc = "done",
                          ![h].replies = Append(@, Reply("voice_failed"))]
    /\ UNCHANGED <<config, now, store, used, activeChatId, snd, failedFwd, expiredGone, partial, lastDelivered>>

\* _handleVoiceMessage, lines 161-174: the transcription arrived; an empty one is
\* refused, any other is processed, untrimmed, as a command without token
VoiceTranscribed(h, P) ==
    /\ hnd[h].pc = "voice"
    /\ \E t \in P.transcripts :
        hnd' = [hnd EXCEPT ![h] =
            IF trim(Texts[t]) = <<>>
            THEN [@ EXCEPT !.pc = "done", !.text = t,
                           !.replies = Append(@, Reply("untranscribable"))]
            ELSE [@ EXCEPT !.pc = "check", !.text = t, !.lookup = "recency",
                           !.command = Texts[t],
                           !.replies = Append(@, Reply("transcribed")),
                           !.session = _findMostRecentSession(hnd[h].chatId, hnd[h].userId)]]
    /\ UNCHANGED <<config, now, store, used, activeChatId, snd, failedFwd, expiredGone, partial, lastDelivered>>

\* _handleVoiceMessage, lines 168-180: the transcription arrived and
\* fs.readdirSync throws in _findMostRecentSession; the catch of
\* _handleVoiceMessage posts the error
VoiceTranscribedScanFails(h, P) ==
    /\ hnd[h].pc = "voice"
    /\ \E t \in P.transcripts, error \in ScanErrors :
        /\ trim(Texts[t]) # <<>>
        /\ hnd' = [hnd EXCEPT ![h] =
               [@ EXCEPT !.pc = "done", !.text = t, !.lookup = "recency",
                         !.command = Texts[t], !.thrown = error,
                         !.replies = hnd[h].replies \o
                            <<Reply("transcribed"),
                              [Reply("voice_failed") EXCEPT !.error = error]>>]]
    /\ UNCHANGED <<config, now, store, used, activeChatId, snd, failedFwd, expiredGone, partial, lastDelivered>>

\* session.tmuxSession || 'default'
TmuxOf(session) == IF session.tmuxSession = "" THEN "default" ELSE session.tmuxSession

\* _processCommand, line 348, and _processCommandWithoutToken, line 280
IsExpired(session) == session.expiresAt < now

\* variant: one message for both ways of finding no session
CheckNotFoundOneMessage(h) ==
    /\ hnd[h].pc = "check"
    /\ hnd[h].session = NoSession
    /\ hnd' = [hnd EXCEPT ![h].pc = "done",
                    ![h].replies = Append(@, Reply("invalid_token"))]
    /\ UNCHANGED <<config, now, store, used, activeChatId, snd, failedFwd, expiredGone, partial, lastDelivered>>

\* _processCommand, lines 340-345, and _processCommandWithoutToken, lines 272-277
CheckNotFound(h) ==
    /\ hnd[h].pc = "check"
    /\ hnd[h].session = NoSession
    /\ hnd' = [hnd EXCEPT ![h].pc = "done",
                    ![h].replies = Append(@, Reply(IF hnd[h].lookup = "token"
                                                   THEN "invalid_token" ELSE "no_session"))]
    /\ UNCHANGED <<config, now, store, used, activeChatId, snd, failedFwd, expiredGone, partial, lastDelivered>>

\* _processCommand, lines 348-351, and _processCommandWithoutToken, lines 280-283:
\* the expiry notice is posted before the record is removed
CheckExpired(h) ==
    /\ hnd[h].pc = "check"
    /\ hnd[h].session # NoSession
    /\ IsExpired(hnd[h].session)
    /\ hnd' = [hnd EXCEPT ![h].pc = "remove",
                    ![h].replies = Append(@, Reply(IF hnd[h].lookup = "token"
                                                   THEN "token_expired" ELSE "session_expired"))]
    /\ UNCHANGED <<config, now, store, used, activeChatId, snd, failedFwd, expiredGone, partial, lastDelivered>>

\* variant: the expired record is reported but left in the directory
RemoveExpiredKeeps(h) ==
    /\ hnd[h].pc = "remove"
    /\ expiredGone' = expiredGone \cup {hnd[h].session.token}
    /\ hnd' = [hnd EXCEPT ![h].pc = "done"]
    /\ UNCHANGED <<config, now, store, used, activeChatId, snd, failedFwd, partial, lastDelivered>>

\* variant: the file is unlinked without a look whether it exists
RemoveExpiredUnchecked(h) ==
    /\ hnd[h].pc = "remove"
    /\ store' = _removeSession(hnd[h].session.id)
    /\ expiredGone' = expiredGone \cup {hnd[h].session.token}
    /\ hnd' = [hnd EXCEPT ![h].pc = "done",
                          ![h].thrown = IF hnd[h].session.id \in DOMAIN store
                                        THEN "" ELSE "ENOENT",
                          ![h].removed = IF hnd[h].session.id \in DOMAIN store
                                         THEN {hnd[h].session.id} ELSE {}]
    /\ UNCHANGED <<config, now, used, activeChatId, snd, failedFwd, partial, lastDelivered>>

\* _processCommand, line 352, and _processCommandWithoutToken, line 284
RemoveExpired(h) ==
    /\ hnd[h].pc = "remove"
    /\ store' = _removeSession(hnd[h].session.id)
    /\ expiredGone' = expiredGone \cup {hnd[h].session.token}
    /\ hnd' = [hnd EXCEPT ![h].pc = "done",
                          ![h].removed = IF hnd[h].session.id \in DOMAIN store
                                         THEN {hnd[h].session.id} ELSE {}]
    /\ UNCHANGED <<config, now, used, activeChatId, snd, failedFwd, partial, lastDelivered>>

\* variant: the command is handed over without the expiry test
InjectUnchecked(h) ==
    /\ hnd[h].pc = "check"
    /\ hnd[h].session # NoSession
    /\ hnd' = [hnd EXCEPT ![h].pc = "inject",
                    ![h].forwarded = <<[command |-> hnd[h].command,
                                        tmuxSession |-> TmuxOf(hnd[h].session)]>>]
    /\ UNCHANGED <<config, now, store, used, activeChatId, snd, failedFwd, expiredGone, partial, lastDelivered>>

\* _processCommand, lines 356-359, and _processCommandWithoutToken, lines 288-291:
\* the command is handed to injector.injectCommand
Inject(h) ==
    /\ hnd[h].pc = "check"
    /\ hnd[h].session # NoSession
    /\ ~IsExpired(hnd[h].session)
    /\ hnd' = [hnd EXCEPT ![h].pc = "inject",
                    ![h].forwarded = <<[command |-> hnd[h].command,
                                        tmuxSession |-> TmuxOf(hnd[h].session)]>>]
    /\ UNCHANGED <<config, now, store, used, activeChatId, snd, failedFwd, expiredGone, partial, lastDelivered>>

\* lines 361-367 and 293-299: the injection succeeded, the confirmation is posted
InjectOk(h) ==
    /\ hnd[h].pc = "inject"
    /\ \E delivered \in BOOLEAN :
        hnd' = [hnd EXCEPT ![h].pc = "done",
                    ![h].replies = Append(@, [Reply("sent") EXCEPT !.delivered = delivered,
                                        !.command = hnd[h].forwarded[1].command,
                                        !.session = hnd[h].forwarded[1].tmuxSession])]
    /\ UNCHANGED <<config, now, store, used, activeChatId, snd, failedFwd, expiredGone, partial, lastDelivered>>

\* variant: a failed injection removes the session, as a failed send does
InjectFailRemoves(h, P) ==
    /\ hnd[h].pc = "inject"
    /\ \E error \in P.injectErrors :
        hnd' = [hnd EXCEPT ![h].pc = "done", ![h].thrown = error,
                    ![h].replies = Append(@, [Reply("failed") EXCEPT
                                                  !.error = error])]
    /\ failedFwd' = failedFwd \cup {hnd[h].session.id}
    /\ store' = _removeSession(hnd[h].session.id)
    /\ UNCHANGED <<config, now, used, activeChatId, snd, expiredGone, partial, lastDelivered>>

\* lines 369-374 and 301-306: the injection failed, its message is posted
InjectFail(h, P) ==
    /\ hnd[h].pc = "inject"
    /\ \E error \in P.injectErrors :
        hnd' = [hnd EXCEPT ![h].pc = "done", ![h].thrown = error,
                    ![h].replies = Append(@, [Reply("failed") EXCEPT
                                                  !.error = error])]
    /\ failedFwd' = failedFwd \cup {hnd[h].session.id}
    /\ UNCHANGED <<config, now, store, used, activeChatId, snd, expiredGone, partial, lastDelivered>>

(***************************************************************************)
(* The clock, and the specifications.  A specification draws the inputs of *)
(* the operations from the sets of a profile P.                            *)
(***************************************************************************)
\* the wall clock advances to a later one of the instants the model follows
Tick(P) ==
    /\ \E t \in P.instants :
        /\ t > now
        /\ now' = t
    /\ UNCHANGED <<config, store, used, activeChatId, snd, hnd, failedFwd, expiredGone, partial, lastDelivered>>

\* _sendImpl has returned (or thrown): the task is over
SendReturn(s) ==
    /\ snd[s].pc = "done"
    /\ snd' = [snd EXCEPT ![s] = SIdle]
    /\ UNCHANGED <<config, now, store, used, activeChatId, hnd, failedFwd, expiredGone, partial, lastDelivered>>

\* _handleWebhook has answered the request: the task is over
HandleReturn(h) ==
    /\ hnd[h].pc = "done"
    /\ hnd' = [hnd EXCEPT ![h] = HIdle]
    /\ UNCHANGED <<config, now, store, used, activeChatId, snd, failedFwd, expiredGone, partial, lastDelivered>>

\* A task's last step and its return are one turn of the event loop: nothing
\* runs between them, so every other step waits while a task is returning.
\* The records of a finished task are kept for that one state, in which its
\* outcome can be read.
Returning ==
    \/ \E s \in DOMAIN snd : snd[s].pc = "done"
    \/ \E h \in DOMAIN hnd : hnd[h].pc = "done"

InitOf(P) ==
    /\ config \in P.configs
    /\ now = StartTime
    /\ store = <<>>
    /\ used = {}
    /\ activeChatId = Unset
    /\ snd = [s \in P.senders |-> SIdle]
    /\ hnd = [h \in P.handlers |-> HIdle]
    /\ failedFwd = {}
    /\ expiredGone = {}
    /\ partial = {}
    /\ lastDelivered = Unset

(***************************************************************************)
(* Spec: every operation of both files, interleaved, over few inputs.      *)
(***************************************************************************)
PAll == [senders |-> {"s1"}, handlers |-> {"h1"}, sessions |-> SessionIds,
         configs |-> {CfgFailover, CfgNone},
         identities |-> {[chatId |-> 555, userId |-> 555], [chatId |-> 999, userId |-> 4]},
         texts |-> {3, 9},
         transcripts |-> {9, 10}, tokens |-> {TokAB},
         notifications |-> {[hasMetadata |-> FALSE, tmuxSession |-> ""]},
         tmux |-> {"work"}, lates |-> {0}, errors |-> TransportErrors,
         injectErrors |-> InjectErrors, instants |-> {StartTime, StartTime + TTL + 1}]

Init == InitOf(PAll)

Next ==
    \/ \E s \in DOMAIN snd : SendReturn(s)
    \/ \E h \in DOMAIN hnd : HandleReturn(h)
    \/ \E s \in DOMAIN snd : ~Returning /\ SendConfigError(s)
    \/ \E s \in DOMAIN snd : ~Returning /\ SendCreate(s, PAll)
    \/ \E s \in DOMAIN snd : ~Returning /\ SendTarget(s)
    \/ \E s \in DOMAIN snd : ~Returning /\ SendPostOk(s)
    \/ \E s \in DOMAIN snd : ~Returning /\ SendPostFail(s, PAll)
    \/ \E s \in DOMAIN snd : ~Returning /\ SendRecoverOk(s)
    \/ \E s \in DOMAIN snd : ~Returning /\ SendRecoverFail(s)
    \/ \E h \in DOMAIN hnd : ~Returning /\ ReceiveText(h, PAll)
    \/ \E h \in DOMAIN hnd : ~Returning /\ ReceiveVoice(h, PAll)
    \/ \E h \in DOMAIN hnd : ~Returning /\ VoiceFailed(h)
    \/ \E h \in DOMAIN hnd : ~Returning /\ VoiceTranscribed(h, PAll)
    \/ \E h \in DOMAIN hnd : ~Returning /\ CheckNotFound(h)
    \/ \E h \in DOMAIN hnd : ~Returning /\ CheckExpired(h)
    \/ \E h \in DOMAIN hnd : ~Returning /\ RemoveExpired(h)
    \/ \E h \in DOMAIN hnd : ~Returning /\ Inject(h)
    \/ \E h \in DOMAIN hnd : ~Returning /\ InjectOk(h)
    \/ \E h \in DOMAIN hnd : ~Returning /\ InjectFail(h, PAll)
    \/ ~Returning /\ Tick(PAll)

Spec == Init /\ [][Next]_vars

(***************************************************************************)
(* SpecParse: the router over every text of the model; sessions come and   *)
(* go (a send may fail), the clock stands still.                           *)
(***************************************************************************)
PParse == [senders |-> {"s1"}, handlers |-> {"h1"}, sessions |-> SessionIds,
           configs |-> {CfgDirect, CfgGroup}, identities |-> Identities, texts |-> TextIds,
           transcripts |-> Transcripts, tokens |-> Tokens,
           notifications |-> {[hasMetadata |-> FALSE, tmuxSession |-> ""]},
           tmux |-> {""}, lates |-> {0}, errors |-> {ErrNetwork},
           injectErrors |-> {"tmux session not found"}, instants |-> {StartTime}]

InitParse == InitOf(PParse)

NextParse ==
    \/ \E s \in DOMAIN snd : SendReturn(s)
    \/ \E h \in DOMAIN hnd : HandleReturn(h)
    \/ \E s \in DOMAIN snd : ~Returning /\ SendCreate(s, PParse)
    \/ \E s \in DOMAIN snd : ~Returning /\ SendTarget(s)
    \/ \E s \in DOMAIN snd : ~Returning /\ SendPostOk(s)
    \/ \E s \in DOMAIN snd : ~Returning /\ SendPostFail(s, PParse)
    \/ \E h \in DOMAIN hnd : ~Returning /\ ReceiveText(h, PParse)
    \/ \E h \in DOMAIN hnd : ~Returning /\ ReceiveVoice(h, PParse)
    \/ \E h \in DOMAIN hnd : ~Returning /\ VoiceFailed(h)
    \/ \E h \in DOMAIN hnd : ~Returning /\ VoiceTranscribed(h, PParse)
    \/ \E h \in DOMAIN hnd : ~Returning /\ CheckNotFound(h)
    \/ \E h \in DOMAIN hnd : ~Returning /\ Inject(h)
    \/ \E h \in DOMAIN hnd : ~Returning /\ InjectOk(h)
    \/ \E h \in DOMAIN hnd : ~Returning /\ InjectFail(h, PParse)

SpecParse == InitParse /\ [][NextParse]_vars

(***************************************************************************)
(* SpecResolve: the resolution of a session, by token and by recency, over *)
(* sessions of every age; few texts, and every send succeeds.              *)
(***************************************************************************)
PResolve == [senders |-> {"s1"}, handlers |-> {"h1"}, sessions |-> SessionIds,
             configs |-> {CfgDirect}, identities |-> {[chatId |-> 555, userId |-> 555]},
             texts |-> {1, 3, 9}, transcripts |-> {},
             tokens |-> Tokens,
             notifications |-> {[hasMetadata |-> FALSE, tmuxSession |-> ""]},
             tmux |-> {""}, lates |-> {0}, errors |-> {},
             injectErrors |-> InjectErrors, instants |-> Instants]

InitResolve == InitOf(PResolve)

NextResolve ==
    \/ \E s \in DOMAIN snd : SendReturn(s)
    \/ \E h \in DOMAIN hnd : HandleReturn(h)
    \/ \E s \in DOMAIN snd : ~Returning /\ SendCreate(s, PResolve)
    \/ \E s \in DOMAIN snd : ~Returning /\ SendTarget(s)
    \/ \E s \in DOMAIN snd : ~Returning /\ SendPostOk(s)
    \/ \E h \in DOMAIN hnd : ~Returning /\ ReceiveText(h, PResolve)
    \/ \E h \in DOMAIN hnd : ~Returning /\ CheckNotFound(h)
    \/ \E h \in DOMAIN hnd : ~Returning /\ CheckExpired(h)
    \/ \E h \in DOMAIN hnd : ~Returning /\ RemoveExpired(h)
    \/ \E h \in DOMAIN hnd : ~Returning /\ Inject(h)
    \/ \E h \in DOMAIN hnd : ~Returning /\ InjectOk(h)
    \/ \E h \in DOMAIN hnd : ~Returning /\ InjectFail(h, PResolve)
    \/ ~Returning /\ Tick(PResolve)

SpecResolve == InitResolve /\ [][NextResolve]_vars

(***************************************************************************)
(* SpecAuth: the authorization check of the handler, over more identities  *)
(* and configurations; no session exists.                                  *)
(***************************************************************************)
PAuth == [senders |-> {}, handlers |-> {"h1"}, sessions |-> SessionIds,
          configs |-> Configs \cup {CfgBoth, CfgUsers},
          identities |-> [chatId : {555, 999, -100}, userId : {555, 777, 4}],
          texts |-> {9, 10, 11, 12}, transcripts |-> {9, 10},
          tokens |-> {}, notifications |-> {}, tmux |-> {}, lates |-> {}, errors |-> {},
          injectErrors |-> {}, instants |-> {StartTime}]

InitAuth == InitOf(PAuth)

NextAuth ==
    \/ \E h \in DOMAIN hnd : HandleReturn(h)
    \/ \E h \in DOMAIN hnd : ~Returning /\ ReceiveText(h, PAuth)
    \/ \E h \in DOMAIN hnd : ~Returning /\ ReceiveVoice(h, PAuth)
    \/ \E h \in DOMAIN hnd : ~Returning /\ VoiceFailed(h)
    \/ \E h \in DOMAIN hnd : ~Returning /\ VoiceTranscribed(h, PAuth)
    \/ \E h \in DOMAIN hnd : ~Returning /\ CheckNotFound(h)

SpecAuth == InitAuth /\ [][NextAuth]_vars

(***************************************************************************)
(* SpecSend: the notification channel alone, over every configuration and  *)
(* every transport error; a second may begin between the two clock reads   *)
(* of _createSession.                                                      *)
(***************************************************************************)
PSend == [senders |-> {"s1", "s2"}, handlers |-> {}, sessions |-> SessionIds,
          configs |-> Configs, identities |-> {}, texts |-> {}, transcripts |-> {},
          tokens |-> {TokAB}, notifications |-> Notifications,
          tmux |-> CurrentTmuxSessions, lates |-> {0, 1}, errors |-> TransportErrors,
          injectErrors |-> {}, instants |-> {StartTime, StartTime + 1}]

InitSend == InitOf(PSend)

NextSend ==
    \/ \E s \in DOMAIN snd : SendReturn(s)
    \/ \E s \in DOMAIN snd : ~Returning /\ SendConfigError(s)
    \/ \E s \in DOMAIN snd : ~Returning /\ SendCreate(s, PSend)
    \/ \E s \in DOMAIN snd : ~Returning /\ SendTarget(s)
    \/ \E s \in DOMAIN snd : ~Returning /\ SendPostOk(s)
    \/ \E s \in DOMAIN snd : ~Returning /\ SendPostFail(s, PSend)
    \/ \E s \in DOMAIN snd : ~Returning /\ SendRecoverOk(s)
    \/ \E s \in DOMAIN snd : ~Returning /\ SendRecoverFail(s)

SpecSend == InitSend /\ [][NextSend]_vars

(***************************************************************************)
(* SpecProcesses: the notification channel in one process and the webhook  *)
(* handler in another, both on the same session directory; the write of a  *)
(* record is two steps of the writing process.                             *)
(***************************************************************************)
PProcesses == [senders |-> {"s1"}, handlers |-> {"h1"}, sessions |-> SessionIds,
               configs |-> {CfgDirect}, identities |-> {[chatId |-> 555, userId |-> 555]},
               texts |-> {5, 9}, transcripts |-> {},
               tokens |-> Tokens,
               notifications |-> {[hasMetadata |-> FALSE, tmuxSession |-> ""]},
               tmux |-> {""}, lates |-> {0}, errors |-> {},
               injectErrors |-> {"tmux session not found"}, instants |-> {StartTime}]

InitProcesses == InitOf(PProcesses)

NextProcesses ==
    \/ \E s \in DOMAIN snd : SendReturn(s)
    \/ \E h \in DOMAIN hnd : HandleReturn(h)
    \/ \E s \in DOMAIN snd : ~Returning /\ SendCreateOpen(s, PProcesses)
    \/ \E s \in DOMAIN snd : ~Returning /\ SendCreateWrite(s)
    \/ \E s \in DOMAIN snd : ~Returning /\ SendTarget(s)
    \/ \E s \in DOMAIN snd : ~Returning /\ SendPostOk(s)
    \/ \E h \in DOMAIN hnd : ~Returning /\ ReceiveText(h, PProcesses)
    \/ \E h \in DOMAIN hnd : ~Returning /\ CheckNotFound(h)
    \/ \E h \in DOMAIN hnd : ~Returning /\ Inject(h)
    \/ \E h \in DOMAIN hnd : ~Returning /\ InjectOk(h)
    \/ \E h \in DOMAIN hnd : ~Returning /\ InjectFail(h, PProcesses)

SpecProcesses == InitProcesses /\ [][NextProcesses]_vars

(***************************************************************************)
(* SpecRemove: two messages handled at a time, so that two tasks may be    *)
(* about to remove the same expired session.                               *)
(***************************************************************************)
PRemove == [senders |-> {"s1"}, handlers |-> {"h1", "h2"}, sessions |-> SessionIds,
            configs |-> {CfgDirect}, identities |-> {[chatId |-> 555, userId |-> 555]},
            texts |-> {5}, transcripts |-> {},
            tokens |-> {TokAB},
            notifications |-> {[hasMetadata |-> FALSE, tmuxSession |-> ""]},
            tmux |-> {""}, lates |-> {0}, errors |-> {ErrNetwork},
            injectErrors |-> {"tmux session not found"},
            instants |-> {StartTime, StartTime + TTL + 1}]

InitRemove == InitOf(PRemove)

NextRemove ==
    \/ \E s \in DOMAIN snd : SendReturn(s)
    \/ \E h \in DOMAIN hnd : HandleReturn(h)
    \/ \E s \in DOMAIN snd : ~Returning /\ SendCreate(s, PRemove)
    \/ \E s \in DOMAIN snd : ~Returning /\ SendTarget(s)
    \/ \E s \in DOMAIN snd : ~Returning /\ SendPostOk(s)
    \/ \E s \in DOMAIN snd : ~Returning /\ SendPostFail(s, PRemove)
    \/ \E h \in DOMAIN hnd : ~Returning /\ ReceiveText(h, PRemove)
    \/ \E h \in DOMAIN hnd : ~Returning /\ CheckNotFound(h)
    \/ \E h \in DOMAIN hnd : ~Returning /\ CheckExpired(h)
    \/ \E h \in DOMAIN hnd : ~Returning /\ RemoveExpired(h)
    \/ \E h \in DOMAIN hnd : ~Returning /\ Inject(h)
    \/ \E h \in DOMAIN hnd : ~Returning /\ InjectOk(h)
    \/ \E h \in DOMAIN hnd : ~Returning /\ InjectFail(h, PRemove)
    \/ ~Returning /\ Tick(PRemove)

SpecRemove == InitRemove /\ [][NextRemove]_vars

(***************************************************************************)
(* SpecFaults: both files when the session directory cannot be written or  *)
(* listed.                                                                 *)
(***************************************************************************)
PFaults == [senders |-> {"s1"}, handlers |-> {"h1"}, sessions |-> SessionIds,
            configs |-> {CfgFailover, CfgGroup},
            identities |-> {[chatId |-> 555, userId |-> 555]},
            texts |-> {5, 9, 11}, transcripts |-> {9, 10},
            tokens |-> {TokAB},
            notifications |-> {[hasMetadata |-> FALSE, tmuxSession |-> ""]},
            tmux |-> {""}, lates |-> {0}, errors |-> {ErrBlocked},
            injectErrors |-> {"tmux session not found"}, instants |-> {StartTime}]

InitFaults == InitOf(PFaults)

NextFaults ==
    \/ \E s \in DOMAIN snd : SendReturn(s)
    \/ \E h \in DOMAIN hnd : HandleReturn(h)
    \/ \E s \in DOMAIN snd : ~Returning /\ SendCreate(s, PFaults)
    \/ \E s \in DOMAIN snd : ~Returning /\ SendCreateFails(s)
    \/ \E s \in DOMAIN snd : ~Returning /\ SendTarget(s)
    \/ \E s \in DOMAIN snd : ~Returning /\ SendPostOk(s)
    \/ \E s \in DOMAIN snd : ~Returning /\ SendPostFail(s, PFaults)
    \/ \E s \in DOMAIN snd : ~Returning /\ SendRecoverOk(s)
    \/ \E s \in DOMAIN snd : ~Returning /\ SendRecoverFail(s)
    \/ \E h \in DOMAIN hnd : ~Returning /\ ReceiveText(h, PFaults)
    \/ \E h \in DOMAIN hnd : ~Returning /\ ReceiveTextScanFails(h, PFaults)
    \/ \E h \in DOMAIN hnd : ~Returning /\ ReceiveVoice(h, PFaults)
    \/ \E h \in DOMAIN hnd : ~Returning /\ VoiceFailed(h)
    \/ \E h \in DOMAIN hnd : ~Returning /\ VoiceTranscribed(h, PFaults)
    \/ \E h \in DOMAIN hnd : ~Returning /\ VoiceTranscribedScanFails(h, PFaults)
    \/ \E h \in DOMAIN hnd : ~Returning /\ CheckNotFound(h)
    \/ \E h \in DOMAIN hnd : ~Returning /\ Inject(h)
    \/ \E h \in DOMAIN hnd : ~Returning /\ InjectOk(h)
    \/ \E h \in DOMAIN hnd : ~Returning /\ InjectFail(h, PFaults)

SpecFaults == InitFaults /\ [][NextFaults]_vars

(***************************************************************************)
(* SpecCache: two sends at a time and a third after them, so that a send   *)
(* starts after a failover and a delivery of sends that overlapped.        *)
(***************************************************************************)
PCache == [senders |-> {"s1", "s2"}, handlers |-> {}, sessions |-> 1..MaxSends,
           configs |-> {CfgFailover, CfgGroup}, identities |-> {}, texts |-> {},
           transcripts |-> {}, tokens |-> {TokAB},
           notifications |-> {[hasMetadata |-> FALSE, tmuxSession |-> ""]},
           tmux |-> {""}, lates |-> {0}, errors |-> {ErrBlocked},
           injectErrors |-> {}, instants |-> {StartTime}]

InitCache == InitOf(PCache)

NextCache ==
    \/ \E s \in DOMAIN snd : SendReturn(s)
    \/ \E s \in DOMAIN snd : ~Returning /\ SendCreate(s, PCache)
    \/ \E s \in DOMAIN snd : ~Returning /\ SendTarget(s)
    \/ \E s \in DOMAIN snd : ~Returning /\ SendPostOk(s)
    \/ \E s \in DOMAIN snd : ~Returning /\ SendPostFail(s, PCache)
    \/ \E s \in DOMAIN snd : ~Returning /\ SendRecoverOk(s)
    \/ \E s \in DOMAIN snd : ~Returning /\ SendRecoverFail(s)

SpecCache == InitCache /\ [][NextCache]_vars

(***************************************************************************)
(* SpecClassify: sends that fail with every answer of the model, under a   *)
(* configuration that always has a candidate to fail over to.              *)
(***************************************************************************)
PClassify == [senders |-> {"s1"}, handlers |-> {}, sessions |-> SessionIds,
              configs |-> {CfgFailover}, identities |-> {}, texts |-> {},
              transcripts |-> {}, tokens |-> {TokAB},
              notifications |-> {[hasMetadata |-> FALSE, tmuxSession |-> ""]},
              tmux |-> {""}, lates |-> {0}, errors |-> AllErrors,
              injectErrors |-> {}, instants |-> {StartTime}]

InitClassify == InitOf(PClassify)

NextClassify ==
    \/ \E s \in DOMAIN snd : SendReturn(s)
    \/ \E s \in DOMAIN snd : ~Returning /\ SendCreate(s, PClassify)
    \/ \E s \in DOMAIN snd : ~Returning /\ SendTarget(s)
    \/ \E s \in DOMAIN snd : ~Returning /\ SendPostOk(s)
    \/ \E s \in DOMAIN snd : ~Returning /\ SendPostFail(s, PClassify)
    \/ \E s \in DOMAIN snd : ~Returning /\ SendRecoverOk(s)
    \/ \E s \in DOMAIN snd : ~Returning /\ SendRecoverFail(s)

SpecClassify == InitClassify /\ [][NextClassify]_vars

(***************************************************************************)
(* SpecIdentity: two authorized senders of different identities, whose     *)
(* messages without token are handled at the same time.                    *)
(***************************************************************************)
PIdentity == [senders |-> {"s1"}, handlers |-> {"h1", "h2"}, sessions |-> SessionIds,
              configs |-> {CfgFailover}, identities |-> Identities,
              texts |-> {9}, transcripts |-> {}, tokens |-> {TokAB},
              notifications |-> {[hasMetadata |-> FALSE, tmuxSession |-> ""]},
              tmux |-> {""}, lates |-> {0}, errors |-> {},
              injectErrors |-> {"tmux session not found"},
              instants |-> {StartTime, StartTime + 100}]

InitIdentity == InitOf(PIdentity)

NextIdentity ==
    \/ \E s \in DOMAIN snd : SendReturn(s)
    \/ \E h \in DOMAIN hnd : HandleReturn(h)
    \/ \E s \in DOMAIN snd : ~Returning /\ SendCreate(s, PIdentity)
    \/ \E s \in DOMAIN snd : ~Returning /\ SendTarget(s)
    \/ \E s \in DOMAIN snd : ~Returning /\ SendPostOk(s)
    \/ \E h \in DOMAIN hnd : ~Returning /\ ReceiveText(h, PIdentity)
    \/ \E h \in DOMAIN hnd : ~Returning /\ CheckNotFound(h)
    \/ \E h \in DOMAIN hnd : ~Returning /\ Inject(h)
    \/ \E h \in DOMAIN hnd : ~Returning /\ InjectOk(h)
    \/ \E h \in DOMAIN hnd : ~Returning /\ InjectFail(h, PIdentity)
    \/ ~Returning /\ Tick(PIdentity)

SpecIdentity == InitIdentity /\ [][NextIdentity]_vars

(***************************************************************************)
(* The properties.  What a property expects is written here from the       *)
(* documented behaviour, apart from the operators of the handler: the      *)
(* form of a message is judged on the trimmed text, which is the text      *)
(* the router parses.                                                      *)
(***************************************************************************)
\* the documented authorization rule: a non-empty allow-list decides alone,
\* an empty one leaves the single configured fallback identifier
Authorized(userId, chatId) ==
    LET allowed == Range(config.whitelist)
        fallback == OrElse(config.chatId, config.groupId)
    IN  \/ allowed # {} /\ (String(userId) \in allowed \/ String(chatId) \in allowed)
        \/ allowed = {} /\ fallback # Unset /\ String(chatId) = fallback

\* the sessions of the store that have not expired: expiresAt > now
Unexpired == {i \in DOMAIN store : store[i].expiresAt > now}

Alnum == Range(UpperLetters) \cup Range(LowerLetters) \cup Range(DigitChars)

\* u is the upper-case spelling of the token t
IsUpperCased(u, t) ==
    /\ Len(u) = Len(t)
    /\ \A k \in DOMAIN t :
        \/ t[k] \in Range(UpperLetters) \cup Range(DigitChars) /\ u[k] = t[k]
        \/ \E i \in DOMAIN LowerLetters : t[k] = LowerLetters[i] /\ u[k] = UpperLetters[i]

\* m reads, from index i on: a token of 8 alphanumeric characters, whitespace up
\* to index j - 1, and a non-empty body from index j on
TokenBodyAt(m, i, j) ==
    /\ i + 8 < j /\ j <= Len(m)
    /\ \A k \in i..(i + 7) : m[k] \in Alnum
    /\ \A k \in (i + 8)..(j - 1) : IsSpace(m[k])
    /\ ~IsSpace(m[j])

\* the explicit form: "/cmd", whitespace, token, whitespace, body
ExplicitForm(m, i, j) ==
    /\ i > 5
    /\ SubSeq(m, 1, 4) = CmdLiteral
    /\ \A k \in 5..(i - 1) : IsSpace(m[k])
    /\ TokenBodyAt(m, i, j)

\* the bare form: token, whitespace, body
BareForm(m, j) == TokenBodyAt(m, 1, j)

\* the trimmed text of every text of the model
Trimmed == [t \in TextIds |-> trim(Texts[t])]

\* the handler h has taken up an authorized text message
AuthorizedText(h) ==
    /\ hnd[h].pc # "idle"
    /\ ~hnd[h].voice
    /\ hnd[h].text # 0
    /\ Authorized(hnd[h].userId, hnd[h].chatId)

\* the last message the handler h has sent back
LastReply(h) == hnd[h].replies[Len(hnd[h].replies)]

----------------------------------------------------------------------------
\* C1 as stated: with exactly one unexpired session in the store, the
\* authorized text "refactor the parser" is resolved by recency to that session
\* and the whole text is the command forwarded; it is not taken for a token
\* reference.
C1_RefactorByRecency ==
    [][\A h \in DOMAIN hnd :
        (/\ hnd[h].pc = "idle" /\ hnd'[h].pc # "idle"
         /\ ~hnd'[h].voice
         /\ Texts[hnd'[h].text] = RefactorTheParser
         /\ Authorized(hnd'[h].userId, hnd'[h].chatId)
         /\ Cardinality(Unexpired) = 1)
        => /\ hnd'[h].lookup = "recency"
           /\ hnd'[h].session.id \in Unexpired
           /\ hnd'[h].command = RefactorTheParser]_vars

\* C1, amended: "refactor" is 8 alphanumeric characters, so the authorized text
\* "refactor the parser" is of the bare form: it is looked up by the token
\* REFACTOR with the command "the parser".  With one unexpired session in the
\* store it resolves to a record that carries the token REFACTOR, and when no
\* record does it is answered with the invalid-token error and nothing is
\* forwarded, the unexpired session notwithstanding.
C1_RefactorByToken ==
    [][\A h \in DOMAIN hnd :
        (/\ hnd'[h].pc # "idle"
         /\ ~hnd'[h].voice
         /\ Texts[hnd'[h].text] = RefactorTheParser
         /\ Authorized(hnd'[h].userId, hnd'[h].chatId))
        => /\ hnd'[h].lookup = "token"
           /\ hnd'[h].token = TokREFACTOR
           /\ hnd'[h].command = TheParser
           /\ (hnd[h].pc = "idle" /\ Cardinality(Unexpired) = 1)
              => IF \E i \in DOMAIN store : store[i].token = TokREFACTOR
                 THEN /\ hnd'[h].session.id \in DOMAIN store
                      /\ hnd'[h].session = store[hnd'[h].session.id]
                      /\ hnd'[h].session.token = TokREFACTOR
                 ELSE hnd'[h].session = NoSession
           /\ hnd'[h].session = NoSession
              => /\ hnd'[h].forwarded = <<>>
                 /\ hnd'[h].pc = "done" => hnd'[h].replies = <<Reply("invalid_token")>>]_vars

\* "refactor the parser" has been answered with the invalid-token error while
\* exactly one unexpired session is in the store
C1_Witness ==
    \E h \in DOMAIN hnd :
        /\ hnd[h].pc = "done"
        /\ Texts[hnd[h].text] = RefactorTheParser
        /\ Authorized(hnd[h].userId, hnd[h].chatId)
        /\ hnd[h].replies = <<Reply("invalid_token")>>
        /\ Cardinality(Unexpired) = 1

----------------------------------------------------------------------------
\* C2: an authorized message of the explicit form, and likewise of the bare
\* form, is looked up by the upper-cased token, whatever the case the token is
\* spelled in, and its command is exactly the text after the whitespace that
\* follows the token.
C2_TokenAndBody ==
    \A h \in DOMAIN hnd :
        AuthorizedText(h) =>
            LET m == Trimmed[hnd[h].text]
            IN  \A i \in 1..Len(m), j \in 1..Len(m) :
                    (ExplicitForm(m, i, j) \/ (i = 1 /\ BareForm(m, j)))
                    => /\ hnd[h].lookup = "token"
                       /\ IsUpperCased(hnd[h].token, SubSeq(m, i, i + 7))
                       /\ hnd[h].command = SubSeq(m, j, Len(m))

\* a mixed-case token after "/cmd", with a run of two whitespace characters
\* before the body, is looked up as AB12CD34 with the body "do the thing"
C2_Witness ==
    \E h \in DOMAIN hnd :
        /\ hnd[h].pc = "check"
        /\ hnd[h].text = 4
        /\ Authorized(hnd[h].userId, hnd[h].chatId)
        /\ hnd[h].lookup = "token"
        /\ hnd[h].token = TokAB
        /\ hnd[h].command = DoTheThing

----------------------------------------------------------------------------
\* C3: an authorized message of the bare form is always looked up by token,
\* the token being its first 8 characters; when no session carries the token
\* the answer is the invalid-token error and nothing is forwarded, and no
\* session is resolved by recency even when an unexpired session exists.
C3_BareFormByToken ==
    [][\A h \in DOMAIN hnd :
        (AuthorizedText(h)' /\ \E j \in 1..Len(Trimmed[hnd'[h].text]) :
                                  BareForm(Trimmed[hnd'[h].text], j))
        => /\ hnd'[h].lookup = "token"
           /\ IsUpperCased(hnd'[h].token, SubSeq(Trimmed[hnd'[h].text], 1, 8))
           /\ (hnd[h].pc = "idle" /\ ~\E i \in DOMAIN store : store[i].token = hnd'[h].token)
                => hnd'[h].pc = "check" /\ hnd'[h].session = NoSession
           /\ hnd'[h].session = NoSession
                => /\ hnd'[h].forwarded = <<>>
                   /\ hnd'[h].pc \in {"check", "done"}
                   /\ hnd'[h].pc = "done"
                        => hnd'[h].replies = <<Reply("invalid_token")>>]_vars

\* the bare-form message "AB12CD34 do the thing" has been answered with the
\* invalid-token error while an unexpired session (of another token) exists
C3_Witness ==
    \E h \in DOMAIN hnd :
        /\ hnd[h].pc = "done"
        /\ hnd[h].text = 5
        /\ hnd[h].lookup = "token"
        /\ hnd[h].token = TokAB
        /\ hnd[h].replies = <<Reply("invalid_token")>>
        /\ hnd[h].forwarded = <<>>
        /\ Unexpired # {}

----------------------------------------------------------------------------
\* C4: a session that expires TTL seconds after its creation and is addressed
\* by its token is forwarded to while now < expiresAt and is treated as
\* expired from now = expiresAt on: the expiry test is expiresAt <= now.
C4_ExpiredAtExpiresAt ==
    [][\A h \in DOMAIN hnd :
        (/\ hnd[h].pc = "check" /\ hnd'[h].pc # "check"
         /\ hnd[h].lookup = "token"
         /\ hnd[h].session # NoSession
         /\ hnd[h].session.expiresAt = hnd[h].session.createdAt + TTL)
        => IF hnd[h].session.expiresAt <= now
           THEN hnd'[h].pc = "remove" /\ LastReply(h)' = Reply("token_expired")
           ELSE hnd'[h].pc = "inject"]_vars

----------------------------------------------------------------------------
\* C5: _isAuthorized answers yes exactly when the allow-list is non-empty and
\* contains String(userId) or String(chatId), or the allow-list is empty and
\* String(chatId) is the configured fallback identifier; so with allow-list []
\* and fallback "555" chat 555 is let in and chat 999 is not, whoever the user.
C5_AuthorizedExactly ==
    \A h \in DOMAIN hnd :
        hnd[h].auth # "unchecked"
        => /\ hnd[h].auth = "yes" <=> Authorized(hnd[h].userId, hnd[h].chatId)
           /\ (config.whitelist = <<>> /\ OrElse(config.chatId, config.groupId) = E1)
                => /\ hnd[h].chatId = 555 => hnd[h].auth = "yes"
                   /\ hnd[h].chatId = 999 => hnd[h].auth = "no"

\* allow-list [] and fallback "555": chat 999 is turned away although its user
\* id is 555
C5_Witness ==
    \E h \in DOMAIN hnd :
        /\ config.whitelist = <<>>
        /\ config.chatId = E1
        /\ hnd[h].chatId = 999
        /\ hnd[h].userId = 555
        /\ hnd[h].auth = "no"

----------------------------------------------------------------------------
\* what is common to a denied message: no session is looked up, none is
\* removed, no command is forwarded
Untouched(m) ==
    /\ m.pc = "done"
    /\ m.lookup = "none"
    /\ m.session = NoSession
    /\ m.forwarded = <<>>
    /\ m.removed = {}

\* C6 as stated: a text or voice message of an identity that is not authorized
\* is answered with the denial and touches no session, whatever its content.
C6_DeniedWhateverContent ==
    [][\A h \in DOMAIN hnd :
        (/\ hnd'[h].pc # "idle"
         /\ ~Authorized(hnd'[h].userId, hnd'[h].chatId))
        => /\ hnd'[h].replies = <<Reply("unauthorized")>>
           /\ Untouched(hnd'[h])
           /\ hnd[h].pc = "idle" => store' = store]_vars

\* C6, amended: a voice message, or a text message that is not blank, of an
\* identity that is not authorized is answered with the denial alone; a blank
\* text is dropped before the authorization check and gets no answer at all.
\* Either way no session is looked up, none is removed, no command is forwarded
\* and the store is left as it was.
C6_DeniedTouchesNothing ==
    [][\A h \in DOMAIN hnd :
        (/\ hnd'[h].pc # "idle"
         /\ ~Authorized(hnd'[h].userId, hnd'[h].chatId))
        => /\ hnd'[h].replies =
                IF ~hnd'[h].voice /\ Trimmed[hnd'[h].text] = <<>>
                THEN <<>> ELSE <<Reply("unauthorized")>>
           /\ Untouched(hnd'[h])
           /\ hnd[h].pc = "idle" => store' = store]_vars

\* a message of the explicit form that names the token of a stored session has
\* been denied
C6_Witness ==
    \E h \in DOMAIN hnd :
        /\ hnd[h].pc = "done"
        /\ hnd[h].text = 2
        /\ ~Authorized(hnd[h].userId, hnd[h].chatId)
        /\ hnd[h].replies = <<Reply("unauthorized")>>
        /\ \E i \in DOMAIN store : store[i].token = TokAB

----------------------------------------------------------------------------
\* the first failover of C7: with allow-list [E1, E2, E3], a post to E1 that
\* fails with 403 "bot was blocked by the user" is followed by a post to E2,
\* and when that succeeds E2 is cached and the send reports success
FirstFailover(s) ==
    /\ (/\ config.whitelist = <<E1, E2, E3>>
        /\ snd[s].pc = "post" /\ snd[s].chatId = E1
        /\ snd'[s].pc # "post" /\ snd'[s].error = ErrBlocked)
       => snd'[s].pc = "recover" /\ snd'[s].attempts = <<E1, E2>>
    /\ (/\ snd[s].pc = "recover" /\ snd[s].attempts = <<E1, E2>>
        /\ snd'[s].pc = "done" /\ snd'[s].result # "failed")
       => snd'[s].result = "ok" /\ activeChatId' = E2

\* C7 as stated: after the first failover every later send targets E2 first and
\* E1 is not attempted again.
C7_NeverBackToE1 ==
    [][/\ \A s \in DOMAIN snd : FirstFailover(s)
       /\ config.whitelist = <<E1, E2, E3>>
          => /\ activeChatId = E2 => activeChatId' = E2
             /\ \A s \in DOMAIN snd :
                    snd'[s].cached = E2
                    => snd'[s].chatId = E2 /\ E1 \notin Range(snd'[s].attempts)]_vars

\* C7, amended: after the first failover a later send targets the cached
\* endpoint first, which is E2 until a later failover replaces it; E1 is
\* attempted by a send that started on E2 only after its post to E2 failed with
\* an invalid-chat error, and the cache changes only to an endpoint whose post
\* has just succeeded.
C7_CachedEndpointFirst ==
    [][/\ \A s \in DOMAIN snd : FirstFailover(s)
       /\ \A s \in DOMAIN snd :
            /\ (snd[s].pc = "created" /\ snd'[s].pc = "post" /\ activeChatId # Unset)
               => snd'[s].chatId = activeChatId /\ snd'[s].attempts = <<activeChatId>>
            /\ (snd'[s].cached = E2 /\ E1 \in Range(snd'[s].attempts))
               => /\ snd'[s].attempts[1] = E2
                  /\ snd'[s].error \in InvalidChatErrorSet
       /\ activeChatId' # activeChatId
          => \E s \in DOMAIN snd :
                /\ snd[s].pc = "recover" /\ snd'[s].result = "ok"
                /\ activeChatId' = snd[s].attempts[Len(snd[s].attempts)]]_vars

\* a send that started on the cached E2 has gone back to E1
C7_Witness ==
    \E s \in DOMAIN snd :
        /\ config.whitelist = <<E1, E2, E3>>
        /\ snd[s].cached = E2
        /\ snd[s].attempts = <<E2, E1>>
        /\ snd[s].error = ErrBlocked

----------------------------------------------------------------------------
\* C8: a send whose first post fails with an invalid-chat error and whose
\* candidates all fail ends with its own session deleted, the other records
\* untouched; a failed injection, and a confirmation that could not be posted,
\* leave the store, and so the resolved session, as it was.
C8_DeletedOnExhaustionOnly ==
    [][/\ \A s \in DOMAIN snd :
            (/\ snd[s].pc \in {"post", "recover"}
             /\ snd'[s].pc = "done" /\ snd'[s].result = "failed"
             /\ snd'[s].error \in InvalidChatErrorSet)
            => /\ snd'[s].attempts = <<snd[s].chatId>> \o snd'[s].candidates
               /\ DOMAIN store' = DOMAIN store \ {snd[s].sessionId}
               /\ \A i \in DOMAIN store' : store'[i] = store[i]
       /\ \A h \in DOMAIN hnd :
            (hnd[h].pc = "inject" /\ hnd'[h].pc = "done")
            => /\ LastReply(h)'.kind \in {"failed", "sent"}
               /\ store' = store]_vars

\* a send has tried every candidate in vain and its session is gone, while the
\* session of an earlier failed injection is still in the store
C8_Witness ==
    \E s \in DOMAIN snd :
        /\ snd[s].pc = "done" /\ snd[s].result = "failed"
        /\ snd[s].error \in InvalidChatErrorSet
        /\ Len(snd[s].attempts) > 1
        /\ snd[s].sessionId \notin DOMAIN store
        /\ \E i \in failedFwd : i \in DOMAIN store

----------------------------------------------------------------------------
\* C9: the scan for the most recent session returns none when no record has
\* expiresAt > now; otherwise it returns a record with expiresAt > now whose
\* createdAt is maximal among those, the first in directory order among the
\* records of that createdAt.
C9_MostRecentUnexpired ==
    [][\A h \in DOMAIN hnd :
        (hnd[h].pc # "check" /\ hnd'[h].pc = "check" /\ hnd'[h].lookup = "recency")
        => LET found == hnd'[h].session
           IN  IF Unexpired = {}
               THEN found = NoSession
               ELSE /\ found.id \in Unexpired
                    /\ found = store[found.id]
                    /\ \A i \in Unexpired :
                        /\ store[i].createdAt <= found.createdAt
                        /\ store[i].createdAt = found.createdAt => found.id <= i]_vars

\* of two unexpired sessions, the first created at StartTime and the second 100
\* seconds later, the scan has returned the second, which comes first in the
\* directory
C9_Witness ==
    \E h \in DOMAIN hnd : \E i, j \in Unexpired :
        /\ hnd[h].pc = "check" /\ hnd[h].lookup = "recency"
        /\ j < i
        /\ store[i].createdAt = StartTime
        /\ store[j].createdAt = StartTime + 100
        /\ hnd[h].session = store[j]

----------------------------------------------------------------------------
\* C10: a failed injection is answered with the failure message that carries
\* the error thrown, and the store is left as it was; a later command that
\* names the token of that session alone, or finds it the most recent unexpired
\* session, resolves to it while it is unexpired and is forwarded to it again.
C10_RetryAfterFailure ==
    [][\A h \in DOMAIN hnd :
        /\ (hnd[h].pc = "inject" /\ hnd'[h].pc = "done" /\ hnd'[h].thrown # "")
           => /\ LastReply(h)' = [Reply("failed") EXCEPT !.error = hnd'[h].thrown]
              /\ hnd[h].session.id \in failedFwd'
              /\ store' = store
        /\ (hnd[h].pc = "idle" /\ hnd'[h].pc = "check")
           => \A i \in failedFwd \cap Unexpired :
                (\/ /\ hnd'[h].lookup = "token"
                    /\ \A k \in DOMAIN store : store[k].token = hnd'[h].token <=> k = i
                 \/ /\ hnd'[h].lookup = "recency"
                    /\ \A k \in Unexpired \ {i} : store[k].createdAt < store[i].createdAt)
                => hnd'[h].session = store[i]
        /\ (/\ hnd[h].pc = "check" /\ hnd'[h].pc # "check"
            /\ hnd[h].session.id \in failedFwd
            /\ hnd[h].session.expiresAt > now)
           => /\ hnd'[h].pc = "inject"
              /\ hnd'[h].forwarded = <<[command |-> hnd[h].command,
                                        tmuxSession |-> TmuxOf(hnd[h].session)]>>]_vars

\* a command is being forwarded to a session, still in the store, to which an
\* earlier injection has failed
C10_Witness ==
    \E h \in DOMAIN hnd :
        /\ hnd[h].pc = "inject"
        /\ hnd[h].session.id \in failedFwd \cap DOMAIN store
        /\ hnd[h].session = store[hnd[h].session.id]

----------------------------------------------------------------------------
----------------------------------------------------------------------------
\* the message the handler h works on is a text of the explicit or of the bare
\* form
HasTokenForm(h) ==
    /\ ~hnd[h].voice
    /\ LET m == Trimmed[hnd[h].text]
       IN  \E i \in 1..Len(m), j \in 1..Len(m) :
                ExplicitForm(m, i, j) \/ (i = 1 /\ BareForm(m, j))

\* C12: when no session resolves, the store is left as it was and nothing is
\* forwarded; the answer is the invalid-token message for a text of the explicit
\* or bare form and the no-active-session message for a command resolved by
\* recency (any other text, or a transcription).
C12_NotFoundTouchesNothing ==
    [][\A h \in DOMAIN hnd :
        /\ (hnd[h].pc = "idle" /\ hnd'[h].pc = "check" /\ hnd'[h].session = NoSession)
           => store' = store
        /\ (hnd[h].pc = "check" /\ hnd'[h].pc # "check" /\ hnd[h].session = NoSession)
           => /\ hnd'[h].pc = "done"
              /\ store' = store
              /\ hnd'[h].forwarded = <<>>
              /\ hnd'[h].removed = {}
              /\ hnd[h].lookup = IF HasTokenForm(h) THEN "token" ELSE "recency"
              /\ hnd'[h].replies = Append(hnd[h].replies,
                    Reply(IF HasTokenForm(h) THEN "invalid_token" ELSE "no_session"))]_vars

\* a text whose first word has nine characters was resolved by recency, found no
\* session and got the no-active-session message
C12_Witness ==
    \E h \in DOMAIN hnd :
        /\ hnd[h].pc = "done"
        /\ hnd[h].text = 14
        /\ hnd[h].lookup = "recency"
        /\ hnd[h].session = NoSession
        /\ hnd[h].replies = <<Reply("no_session")>>
        /\ hnd[h].forwarded = <<>>

----------------------------------------------------------------------------
\* the failures that are not about the endpoint: a rate limit (429) and a
\* request that got no answer
Transient == {ErrTooMany, ErrNetwork}

\* C13: when the first delivery of a send fails with a transient failure, no
\* alternate endpoint is attempted, the cached endpoint is left as it was and
\* the send reports failure at once.
C13_TransientNoFailover ==
    [][\A s \in DOMAIN snd :
        (snd[s].pc = "post" /\ snd'[s].pc # "post" /\ snd'[s].error \in Transient)
        => /\ snd'[s].pc = "done"
           /\ snd'[s].result = "failed"
           /\ snd'[s].attempts = <<snd[s].chatId>>
           /\ snd'[s].candidates = <<>>
           /\ activeChatId' = activeChatId]_vars

\* a send that had alternates to fail over to failed on a rate limit after one
\* attempt
C13_Witness ==
    \E s \in DOMAIN snd :
        /\ snd[s].pc = "done"
        /\ snd[s].error = ErrTooMany
        /\ snd[s].result = "failed"
        /\ Len(snd[s].attempts) = 1
        /\ _getChatIdCandidates(snd[s].chatId) # <<>>

----------------------------------------------------------------------------
RECURSIVE KeptFrom(_, _, _)
\* the entries of seq from position i on that are set, differ from F and repeat
\* no earlier entry of seq
KeptFrom(seq, F, i) ==
    IF i > Len(seq) THEN <<>>
    ELSE IF /\ seq[i] # Unset /\ seq[i] # F
            /\ \A k \in 1..(i - 1) : seq[k] # seq[i]
         THEN <<seq[i]>> \o KeptFrom(seq, F, i + 1)
         ELSE KeptFrom(seq, F, i + 1)

\* allow-list, then the group endpoint, then the direct endpoint
GroupThenDirect(F) == KeptFrom(config.whitelist \o <<config.groupId, config.chatId>>, F, 1)

\* allow-list, then the direct endpoint, then the group endpoint
DirectThenGroup(F) == KeptFrom(config.whitelist \o <<config.chatId, config.groupId>>, F, 1)

\* the failover of sender s runs over the list L(F): it starts at the first
\* entry, moves on by one entry at each failure and stops at the first success
FailoverOver(s, L(_)) ==
    /\ (snd[s].pc = "post" /\ snd'[s].pc # "post" /\ snd'[s].error \in InvalidChatErrorSet)
       => IF L(snd[s].chatId) = <<>>
          THEN snd'[s].pc = "done" /\ snd'[s].result = "failed"
               /\ snd'[s].attempts = <<snd[s].chatId>>
          ELSE snd'[s].pc = "recover"
               /\ snd'[s].attempts = <<snd[s].chatId, L(snd[s].chatId)[1]>>
    /\ (snd[s].pc = "recover" /\ snd'[s] # snd[s])
       => LET l == L(snd[s].chatId)
              n == Len(snd[s].attempts) - 1
          IN  /\ n \in 1..Len(l)
              /\ snd[s].attempts = <<snd[s].chatId>> \o SubSeq(l, 1, n)
              /\ \/ /\ snd'[s].pc = "done" /\ snd'[s].result = "ok"
                    /\ snd'[s].attempts = snd[s].attempts
                    /\ activeChatId' = l[n]
                 \/ /\ n < Len(l)
                    /\ snd'[s].pc = "recover"
                    /\ snd'[s].attempts = Append(snd[s].attempts, l[n + 1])
                    /\ activeChatId' = activeChatId
                 \/ /\ n = Len(l)
                    /\ snd'[s].pc = "done" /\ snd'[s].result = "failed"
                    /\ snd'[s].attempts = snd[s].attempts
                    /\ activeChatId' = activeChatId

\* C14 as stated: after an endpoint-invalid failure of F the candidates are the
\* allow-list entries in order, then the group endpoint, then the direct
\* endpoint, without F and without repeats, attempted in that order up to the
\* first success.
C14_GroupBeforeDirect ==
    [][\A s \in DOMAIN snd : FailoverOver(s, GroupThenDirect)]_vars

\* C14: after an endpoint-invalid failure of F the candidates are the allow-list
\* entries in order, then the direct endpoint (config.chatId), then the group
\* endpoint (config.groupId), without F and without repeats; they are attempted
\* in exactly that order and the attempts stop at the first success.
C14_DirectBeforeGroup ==
    [][\A s \in DOMAIN snd : FailoverOver(s, DirectThenGroup)]_vars

\* the cached allow-list endpoint failed, the direct endpoint failed after it and
\* the group endpoint took the message
C14_Witness ==
    \E s \in DOMAIN snd :
        /\ snd[s].pc = "done"
        /\ snd[s].result = "ok"
        /\ config = CfgGroup
        /\ snd[s].attempts = <<E2, E1, EGroup>>
        /\ activeChatId = EGroup

----------------------------------------------------------------------------
\* C15: a scan that runs while a record is being created sees either no file or
\* the complete record: a lookup by token that finds nothing means that no file
\* of the directory belongs to a session with that token, and a lookup by
\* recency that finds nothing means that no file belongs to an unexpired
\* session.
C15_ScanSkipsNoCreatedSession ==
    [][\A h \in DOMAIN hnd :
        (hnd[h].pc = "idle" /\ hnd'[h].pc = "check" /\ hnd'[h].session = NoSession)
        => IF hnd'[h].lookup = "token"
           THEN \A i \in DOMAIN store : store[i].token # hnd'[h].token
           ELSE Unexpired = {}]_vars

----------------------------------------------------------------------------
\* C16: every record in the session directory expires exactly 86400 seconds
\* after its creation time, whenever it was created.
C16_ExpiresADayAfterCreation ==
    \A i \in DOMAIN store : store[i].expiresAt = store[i].createdAt + TTL

----------------------------------------------------------------------------
\* C17: no two unexpired sessions of the directory carry the same token.
C17_TokenAddressesOneSession ==
    \A i \in Unexpired, j \in Unexpired : i # j => store[i].token # store[j].token

----------------------------------------------------------------------------
\* the step takes the record sessionId, and nothing else, out of the store; the
\* store stays as it is when it holds no such record
RemovedOnly(sessionId) ==
    /\ DOMAIN store' = DOMAIN store \ {sessionId}
    /\ \A i \in DOMAIN store' : store'[i] = store[i]
    /\ sessionId \notin DOMAIN store => store' = store

\* C18: a removal deletes the record of the id when the store holds it; when it
\* holds none, the removal completes without an error and leaves the store as it
\* was, so that a second removal of the same id changes nothing.
C18_RemoveIsIdempotent ==
    [][/\ \A h \in DOMAIN hnd :
            (hnd[h].pc = "remove" /\ hnd'[h].pc # "remove")
            => /\ RemovedOnly(hnd[h].session.id)
               /\ hnd'[h].pc = "done"
               /\ hnd'[h].thrown = ""
               /\ hnd'[h].replies = hnd[h].replies
       /\ \A s \in DOMAIN snd :
            (snd[s].pc = "post" /\ snd'[s].pc = "done" /\ snd'[s].result = "failed")
            => RemovedOnly(snd[s].sessionId)]_vars

\* a handler has removed an expired session that another handler had removed
\* before it: it found no file and finished as usual
C18_Witness ==
    \E h \in DOMAIN hnd :
        /\ hnd[h].pc = "done"
        /\ hnd[h].session # NoSession
        /\ hnd[h].session.token \in expiredGone
        /\ hnd[h].session.id \notin DOMAIN store
        /\ hnd[h].removed = {}
        /\ hnd[h].thrown = ""
        /\ LastReply(h) = Reply("token_expired")

----------------------------------------------------------------------------
\* C19: whenever the handling of a message ends with an error raised, a message
\* about it has been posted to the chat the message came from.
C19_ErrorsAnsweredInChat ==
    [][\A h \in DOMAIN hnd :
        (hnd[h].pc # "done" /\ hnd'[h].pc = "done" /\ hnd'[h].thrown # "")
        => /\ Len(hnd'[h].replies) > Len(hnd[h].replies)
           /\ LastReply(h)'.kind \in {"failed", "voice_failed"}
           /\ LastReply(h)'.error = hnd'[h].thrown]_vars

----------------------------------------------------------------------------
----------------------------------------------------------------------------
\* the configured first destination: the group endpoint if set, otherwise the
\* direct endpoint
ConfiguredFirst == IF config.groupId # Unset THEN config.groupId ELSE config.chatId

\* C21 as stated: the first destination of a send is the endpoint of the last
\* successful delivery if there is one, otherwise the configured group endpoint,
\* otherwise the configured direct endpoint; once a failover has adopted an
\* endpoint, the first destination is not a configured endpoint.
C21_LastDeliveredFirst ==
    [][\A s \in DOMAIN snd :
        (snd[s].pc = "created" /\ snd'[s].pc = "post")
        => /\ snd'[s].chatId = IF lastDelivered # Unset THEN lastDelivered
                               ELSE ConfiguredFirst
           /\ activeChatId # Unset
              => snd'[s].chatId \notin {config.groupId, config.chatId}]_vars

\* C21, amended: the first destination of a send is the cached endpoint, that
\* of the latest successful failover, if there is one, otherwise the configured
\* group endpoint, otherwise the configured direct endpoint; the cache, once
\* set, is never unset, so that a configured endpoint is chosen first after a
\* failover only when it is the cached one.
C21_CacheThenGroupThenDirect ==
    [][/\ \A s \in DOMAIN snd :
            (snd[s].pc = "created" /\ snd'[s].pc = "post")
            => /\ snd'[s].chatId = IF activeChatId # Unset THEN activeChatId
                                   ELSE ConfiguredFirst
               /\ snd'[s].attempts = <<snd'[s].chatId>>
               /\ (activeChatId # Unset /\ snd'[s].chatId \in {config.groupId, config.chatId})
                  => snd'[s].chatId = activeChatId
       /\ activeChatId # Unset => activeChatId' # Unset]_vars

\* a send starts on the cached endpoint although the last successful delivery,
\* of a send that was in flight during the failover, went to another one
C21_Witness ==
    \E s \in DOMAIN snd :
        /\ snd[s].pc = "post"
        /\ snd[s].cached # Unset
        /\ snd[s].chatId = snd[s].cached
        /\ snd[s].attempts = <<snd[s].chatId>>
        /\ lastDelivered # Unset
        /\ lastDelivered # snd[s].chatId

----------------------------------------------------------------------------
\* the text pat occurs in the description of e, letter case apart
Describes(e, pat) ==
    \E i \in 0..(Len(e.description) - Len(pat)) :
        \A j \in 1..Len(pat) : LowerChar(e.description[i + j]) = LowerChar(pat[j])

\* the six descriptions the statement names: chat not found, blocked by user,
\* user deactivated, bot kicked, bot not a member, empty chat id
SixDescriptions == {invalidChatErrors[k] : k \in 1..6}

\* the classification as stated: by the status of the transport, or by one of
\* the six descriptions
EndpointInvalidByStatus(e) ==
    \/ e.status \in {400, 403}
    \/ \E pat \in SixDescriptions : Describes(e, pat)

\* the classification by the body of the answer: its error_code, or one of the
\* six descriptions or CHAT_ID_INVALID in its description
EndpointInvalidByBody(e) ==
    /\ e.response /\ e.data
    /\ \/ e.error_code \in {400, 403}
       \/ \E pat \in SixDescriptions \cup {invalidChatErrors[7]} : Describes(e, pat)

\* a failed first post is taken as endpoint-invalid exactly when Classify holds
\* of its error: then, and only then, the failover starts (the configuration
\* has candidates for every endpoint)
ClassifiedBy(Classify(_)) ==
    \A s \in DOMAIN snd :
        (snd[s].pc = "post" /\ snd'[s].pc # "post" /\ snd'[s].error # NoError)
        => /\ _getChatIdCandidates(snd[s].chatId) # <<>>
           /\ Classify(snd'[s].error) <=> snd'[s].pc = "recover"
           /\ ~Classify(snd'[s].error)
              <=> (snd'[s].pc = "done" /\ snd'[s].result = "failed"
                   /\ snd'[s].attempts = <<snd[s].chatId>>)

\* C22 as stated: a failure is endpoint-invalid exactly when the transport
\* status is 400 or 403 or the error text matches one of the six descriptions;
\* every other failure is transient.
C22_ByTransportStatus == [][ClassifiedBy(EndpointInvalidByStatus)]_vars

\* C22, amended: a failure is endpoint-invalid exactly when the answer has a
\* body and the error_code of the body is 400 or 403 or its description
\* contains, letter case apart, one of the six descriptions or CHAT_ID_INVALID;
\* every other failure, one without an answer or without a body included, is
\* transient.
C22_ByAnswerBody == [][ClassifiedBy(EndpointInvalidByBody)]_vars

\* one send failed over on a description alone, under a status that is neither
\* 400 nor 403
C22_Witness ==
    \E s \in DOMAIN snd :
        /\ snd[s].pc = "recover"
        /\ snd[s].error = ErrKicked
        /\ snd[s].error.error_code \notin {400, 403}
        /\ Len(snd[s].attempts) = 2

----------------------------------------------------------------------------
\* the session that the store and the clock alone single out: none when no
\* record is unexpired, otherwise the unexpired record created last, the first
\* in directory order among equals
ChosenByRecency ==
    IF Unexpired = {} THEN NoSession
    ELSE store[CHOOSE i \in Unexpired :
                 \A k \in Unexpired :
                    \/ store[k].createdAt < store[i].createdAt
                    \/ store[k].createdAt = store[i].createdAt /\ i <= k]

----------------------------------------------------------------------------
\* C24: a send writes one record, its own, and writes it before its first
\* post; no later step of the send adds a record; when the send returns, its
\* record is in the store if and only if it returns success, and after a
\* failure, transient or by exhaustion of the candidates, it is deleted.
C24_RecordIffDelivered ==
    [][\A s \in DOMAIN snd :
        /\ (snd[s].pc = "idle" /\ snd'[s].pc = "created")
           => /\ snd'[s].sessionId \notin DOMAIN store
              /\ DOMAIN store' = DOMAIN store \cup {snd'[s].sessionId}
              /\ snd'[s].attempts = <<>>
        /\ (snd'[s].attempts # <<>> /\ snd[s].attempts = <<>>)
           => snd[s].pc = "created" /\ snd[s].sessionId \in DOMAIN store
        /\ (snd[s].pc \notin {"idle", "done"} /\ snd'[s] # snd[s])
           => DOMAIN store' \subseteq DOMAIN store
        /\ (snd[s].pc \notin {"idle", "done"} /\ snd'[s].pc = "done")
           => /\ snd'[s].result \in {"ok", "failed"}
              /\ snd'[s].sessionId = snd[s].sessionId
              /\ snd'[s].sessionId \in DOMAIN store' <=> snd'[s].result = "ok"
              /\ snd'[s].result = "failed"
                 => DOMAIN store' = DOMAIN store \ {snd[s].sessionId}]_vars

\* a send has failed on a request without an answer and its record is gone,
\* while the record of a send that succeeded is in the store
C24_Witness ==
    \E s \in DOMAIN snd :
        /\ snd[s].pc = "done"
        /\ snd[s].result = "failed"
        /\ snd[s].error = ErrNetwork
        /\ snd[s].sessionId \notin DOMAIN store
        /\ store # <<>>

----------------------------------------------------------------------------
\* the answers of the paths that end without a session to forward to
RefusalKinds == {"unauthorized", "invalid_token", "no_session", "token_expired",
                 "session_expired"}

\* C25: for one inbound message injectCommand is called at most once; it is
\* called only for an authorized sender and a resolved session that the expiry
\* test of the router lets pass at that moment, with the tmux session of that
\* record ("default" when it has none); a message answered with the
\* authorization error, the not-found or the expiry message is never forwarded.
C25_ForwardedOnceWhenAccepted ==
    [][\A h \in DOMAIN hnd :
        /\ Len(hnd'[h].forwarded) <= 1
        /\ (hnd'[h].forwarded # hnd[h].forwarded /\ hnd'[h].forwarded # <<>>)
           => /\ hnd[h].forwarded = <<>>
              /\ Authorized(hnd[h].userId, hnd[h].chatId)
              /\ hnd[h].session # NoSession
              /\ ~(hnd[h].session.expiresAt < now)
              /\ hnd'[h].forwarded[1].tmuxSession =
                    IF hnd[h].session.tmuxSession = "" THEN "default"
                    ELSE hnd[h].session.tmuxSession
        /\ (\E k \in DOMAIN hnd'[h].replies : hnd'[h].replies[k].kind \in RefusalKinds)
           => hnd'[h].forwarded = <<>>
        /\ (hnd'[h].pc # "idle" /\ ~Authorized(hnd'[h].userId, hnd'[h].chatId))
           => hnd'[h].forwarded = <<>>]_vars

\* a transcribed voice message of an authorized sender has been forwarded, once,
\* to the tmux session of the resolved record
C25_Witness ==
    \E h \in DOMAIN hnd :
        /\ hnd[h].pc = "done"
        /\ hnd[h].voice
        /\ Authorized(hnd[h].userId, hnd[h].chatId)
        /\ Len(hnd[h].forwarded) = 1
        /\ hnd[h].forwarded[1].tmuxSession = "work"
        /\ hnd[h].session.tmuxSession = "work"
        /\ LastReply(h).kind = "sent"

----------------------------------------------------------------------------
\* the sessions whose notification is being sent: written, not yet delivered
InFlight == {i \in DOMAIN store :
                \E s \in DOMAIN snd : /\ snd[s].sessionId = i
                                      /\ snd[s].pc \in {"created", "post", "recover"}}

\* C26: a command handled while a send is in flight resolves to the session of
\* that send as to any other: by token when that record alone carries the
\* token, by recency when it is the one unexpired record created last; and a
\* send that fails after the command was forwarded deletes its session and
\* leaves the handler, and what it has forwarded, as they are.
C26_InFlightSessionResolves ==
    [][/\ \A h \in DOMAIN hnd :
            (hnd[h].pc # "check" /\ hnd'[h].pc = "check")
            => \A i \in InFlight :
                /\ (/\ hnd'[h].lookup = "token"
                    /\ \A k \in DOMAIN store : store[k].token = hnd'[h].token <=> k = i)
                   => hnd'[h].session = store[i]
                /\ (/\ hnd'[h].lookup = "recency"
                    /\ i \in Unexpired
                    /\ \A k \in Unexpired \ {i} : store[k].createdAt < store[i].createdAt)
                   => hnd'[h].session = store[i]
       /\ \A s \in DOMAIN snd :
            (snd[s].pc \in {"post", "recover"} /\ snd'[s].pc = "done"
             /\ snd'[s].result = "failed")
            => /\ hnd' = hnd
               /\ snd[s].sessionId \notin DOMAIN store']_vars

\* a command has been forwarded to a session whose send then failed: the session
\* is deleted and its notification was never delivered
C26_Witness ==
    \E h \in DOMAIN hnd, s \in DOMAIN snd :
        /\ hnd[h].pc = "inject"
        /\ Len(hnd[h].forwarded) = 1
        /\ hnd[h].session.id = snd[s].sessionId
        /\ snd[s].pc = "done"
        /\ snd[s].result = "failed"
        /\ snd[s].sessionId \notin DOMAIN store

----------------------------------------------------------------------------
\* the endpoints of the configuration: the allow-list and the two configured ones
ConfiguredEndpoints == (Range(config.whitelist) \cup {config.chatId, config.groupId}) \ {Unset}

\* the send s ends a failover with a delivery
FailoverSucceeds(s) ==
    /\ snd[s].pc = "recover"
    /\ snd'[s].pc = "done"
    /\ snd'[s].result = "ok"

\* C27: whatever the interleaving of the sends, the cache is unset until the
\* first failover succeeds; every successful failover writes the endpoint it
\* delivered to, and nothing else writes the cache, so that the cache is the
\* endpoint of the most recent successful failover; that endpoint is one of the
\* allow-list or of the configured ones and is not the endpoint whose failure
\* started the failover.
C27_CacheIsLatestFailover ==
    [][/\ \A s \in DOMAIN snd :
            FailoverSucceeds(s)
            => /\ activeChatId' = snd[s].attempts[Len(snd[s].attempts)]
               /\ activeChatId' \in ConfiguredEndpoints
               /\ activeChatId' # snd[s].attempts[1]
               /\ snd[s].attempts[1] = snd[s].chatId
       /\ (\A s \in DOMAIN snd : ~FailoverSucceeds(s)) => activeChatId' = activeChatId
       /\ activeChatId' \in ConfiguredEndpoints \cup {Unset}]_vars

\* two sends overlapped: the failover of the first had cached an endpoint, the
\* second, started before that, failed over later and its endpoint replaced it
C27_Witness ==
    \E s \in DOMAIN snd, t \in DOMAIN snd :
        /\ s # t
        /\ snd[s].pc = "done" /\ snd[s].result = "ok"
        /\ snd[s].cached = Unset
        /\ Len(snd[s].attempts) = 3
        /\ activeChatId = snd[s].attempts[3]
        /\ snd[t].pc = "post"
        /\ snd[t].cached = snd[s].attempts[2]

----------------------------------------------------------------------------
\* m is the command prefix, whitespace and a group of 8 alphanumeric characters,
\* with nothing after the group
PrefixTokenNoBody(m) ==
    \E i \in 6..Len(m) :
        /\ SubSeq(m, 1, 4) = CmdLiteral
        /\ \A k \in 5..(i - 1) : IsSpace(m[k])
        /\ Len(m) = i + 7
        /\ \A k \in i..(i + 7) : m[k] \in Alnum

\* m is one word of 8 alphanumeric characters
LoneTokenWord(m) ==
    /\ Len(m) = 8
    /\ \A k \in 1..8 : m[k] \in Alnum

\* the handler h works on an authorized text that names a token and no body
TokenWithoutBody(h) ==
    /\ AuthorizedText(h)
    /\ \/ PrefixTokenNoBody(Trimmed[hnd[h].text])
       \/ LoneTokenWord(Trimmed[hnd[h].text])

\* C28: an authorized text that is the command prefix and a token-shaped group
\* without a body, or a token-shaped word alone, is of neither the explicit nor
\* the bare form: the whole trimmed text, prefix and token included, is the
\* command; the session is the one found by recency, never one looked up by the
\* token the text names; and when a session was found the command forwarded to
\* it is that whole text.
C28_TokenWithoutBodyByRecency ==
    [][\A h \in DOMAIN hnd :
        /\ TokenWithoutBody(h)
           => /\ ~HasTokenForm(h)
              /\ hnd[h].lookup = "recency"
              /\ hnd[h].token = <<>>
              /\ hnd[h].command = Trimmed[hnd[h].text]
              /\ (hnd[h].pc = "check" /\ hnd'[h].pc # "check" /\ hnd[h].session # NoSession)
                 => /\ hnd'[h].pc = "inject"
                    /\ hnd'[h].forwarded =
                          <<[command |-> Trimmed[hnd[h].text],
                             tmuxSession |-> TmuxOf(hnd[h].session)]>>
              /\ hnd[h].session = NoSession => hnd[h].forwarded = <<>>
        /\ (hnd[h].pc = "idle" /\ hnd'[h].pc # "idle" /\ ~hnd'[h].voice
            /\ Authorized(hnd'[h].userId, hnd'[h].chatId)
            /\ \/ PrefixTokenNoBody(Trimmed[hnd'[h].text])
               \/ LoneTokenWord(Trimmed[hnd'[h].text]))
           => /\ hnd'[h].pc = "check"
              /\ hnd'[h].session = ChosenByRecency]_vars

\* the text "/cmd AB12CD34" of an authorized sender has been forwarded whole to
\* the session found by recency, which carries another token, while a session
\* with the token AB12CD34 is in the store
C28_Witness ==
    \E h \in DOMAIN hnd : \E i \in DOMAIN store :
        /\ TokenWithoutBody(h)
        /\ Texts[hnd[h].text] = CmdLiteral \o SP \o TokAB
        /\ hnd[h].pc = "done"
        /\ hnd[h].forwarded = <<[command |-> CmdLiteral \o SP \o TokAB,
                                 tmuxSession |-> TmuxOf(hnd[h].session)]>>
        /\ hnd[h].session.token # TokAB
        /\ store[i].token = TokAB
        /\ store[i].expiresAt > now

====
